---- MODULE Spec2Model ----
(***************************************************************************)
(* Deployment orchestration of visgate-deploy-api: the deployment record,  *)
(* the create / delete / worker-callback handlers, the background          *)
(* orchestration workflow and the user-webhook delivery, each split at the *)
(* coroutine suspension points (await) of the source.                      *)
(***************************************************************************)
EXTENDS Integers, Sequences, FiniteSets, TLC

(* ------------------------------ bounds --------------------------------- *)
MaxCallbacks == 2     \* worker callbacks handled per deployment
MaxDeletes == 2       \* delete requests handled per deployment
MaxProbes == 1        \* unsuccessful readiness probes per workflow run
MaxCandidates == 2    \* GPU candidates the selector may return
MaxRegistry == 3      \* entries of a GPU registry passed to the selector
RateLimitPerMinute == 2   \* the setting rate_limit_requests_per_minute
TickSeconds == 30     \* seconds the monotonic clock advances between requests
MaxTime == 120        \* last reading of the monotonic clock
MaxEndpoints == 2     \* endpoints the provider lists during warm discovery
MaxLiveLogs == 1      \* lines accepted by the live log tunnel per deployment
MaxRotation == 4      \* GPU candidates the selector returns in the workflow scenario
MaxStamp == 1         \* last reading of the clock that stamps log entries
MaxRepoOps == 4       \* writes made to the lone document of the store scenario
MaxWeightUnits == 1000    \* largest weight total estimated, in units of 2^26 bytes
MaxCleanups == 1      \* cleanup requests handled per deployment
MaxRedeliveries == 1  \* times the queue delivers the orchestration task again
MaxLogAppends == 3    \* lines appended to the live log ring of the streamed deployment
MaxLogTime == 3       \* last reading of time.time() in the log stream scenario
LogStreamMaxEntries == 2  \* log_stream_max_entries, the ring's maxlen
LogStreamTtl == 1     \* log_stream_ttl_seconds, in clock readings

(* --------------------------- program constants -------------------------- *)
WebhookMaxRetries == 3
HfMaxAttempts == 3
RATE_LIMIT_WINDOW == 60

Raised == 0                                  \* the POST raised instead of answering
WebhookAnswers == {200, 500}                 \* answers of the user webhook followed in Spec
AllAnswers == {Raised, 200, 204, 400, 401, 404, 500}

Ids == {1, 2}                   \* deployment ids, in the order they are generated
Users == {"userA", "userB"}     \* user_hash of the callers
Creators == {"userA"}           \* callers that issue create requests
Callers == {"warm", "worker", "probe"}

NoDoc == [absent |-> TRUE]
NoUrl == << >>
RootUrl == << "ep" >>
RunUrl == << "ep", "run" >>
Urls == {NoUrl, RootUrl, RunUrl}

WorkerStatuses == {"downloading_model", "loading_model", "ready", "failed"}
TerminalStatuses == {"ready", "failed", "webhook_failed", "deleted"}

VARIABLES
    store,        \* deployment_id -> record or NoDoc (the document collection)
    wf,           \* deployment_id -> position of orchestrate_deployment
    calls,        \* deployment_id -> caller -> invocation of mark_deployment_ready_and_notify
    prov,         \* deployment_id -> provider endpoint created for it: none / live / deleted
    tasks,        \* deployment_id -> orchestration tasks dispatched and not yet started
    secrets,      \* deployment_id -> secret cache holds an entry
    del,          \* deployment_id -> caller of the delete_deployment handler awaiting the provider, or idle
    delResp,      \* deployment_id -> << caller, status code >> answered to delete requests
    resp,         \* deployment_id -> status of the 202 answer to the create request
    clock,        \* wall clock read by _now_iso
    enqueued,     \* deployment_id -> calls of enqueue_orchestration_task
    readyWrites,  \* deployment_id -> store updates that set status=ready
    posts,        \* deployment_id -> POSTs sent to the user webhook
    delivered,    \* deployment_id -> POSTs the user webhook answered with 2xx
    cbCount,      \* deployment_id -> worker callbacks handled
    docMissing,   \* deployment_id -> the workflow found no record for its id
    failures,     \* the counter webhook_delivery_failures_total
    warnLogs,     \* deployment_id -> WARNING lines "User webhook delivery failed ..." in its logs
    tenant,       \* last tenant-scoped request and its answer
    gpu,          \* last GPU selection: its inputs and its result
    rate,         \* rate-limit buckets, the time and the last verdict
    sse,          \* the status event stream of one client
    intake,       \* the create request under way: its inputs and, once rejected, its answer
    intl,         \* the internal secret, the last internal request and the live log ring
    cln,          \* deployment_id -> position and answer of the cleanup_endpoint handler
    repo,         \* one document of the record store with its logs array, and its writers
    est,          \* last VRAM estimation: its inputs and its result
    disp,         \* the create request dispatched to the workflow in both modes
    logsse        \* the live log ring of one deployment and one subscriber of its stream

vars == << store, wf, calls, prov, tasks, secrets, del, delResp, resp, clock,
           enqueued, readyWrites, posts, delivered, cbCount, docMissing,
           failures, warnLogs, tenant, gpu, rate, sse, intake, intl, cln, repo, est, disp, logsse >>

(* variables of the request-scoped parts, untouched by the deployment handlers *)
sideVars == << tenant, gpu, rate, sse, intake, intl, cln, repo, est, disp, logsse >>

aux == << failures, warnLogs, tenant, gpu, rate, sse, intake, intl, cln, repo, est, disp, logsse >>

(* ------------------------------ URL helpers ----------------------------- *)
EndsWithRun(u) == Len(u) > 0 /\ u[Len(u)] = "run"

_as_run_url(u) ==
    IF u = NoUrl THEN NoUrl
    ELSE IF EndsWithRun(u) THEN u ELSE Append(u, "run")

_as_endpoint_root(u) ==
    IF u = NoUrl THEN NoUrl
    ELSE IF EndsWithRun(u) THEN SubSeq(u, 1, Len(u) - 1) ELSE u

(* Python's `a or b` on optional strings *)
OrElse(a, b) == IF a # NoUrl THEN a ELSE b

(* --------------------------- deployment store --------------------------- *)
NewDoc(status, user, url, epid) ==
    [ status |-> status, ready_at |-> 0, endpoint_url |-> url,
      runpod_endpoint_id |-> epid, gpu_allocated |-> 0, error |-> "none",
      user_hash |-> user ]

get_deployment(st, d) == st[d]

set_deployment(st, d, doc) == [st EXCEPT ![d] = doc]

Merge(doc, updates) ==
    [f \in DOMAIN doc |-> IF f \in DOMAIN updates THEN updates[f] ELSE doc[f]]

update_deployment(st, d, updates) ==
    IF st[d] = NoDoc THEN st ELSE [st EXCEPT ![d] = Merge(st[d], updates)]

(* --------------------- mark_deployment_ready_and_notify ----------------- *)
NoAnswer == -1

IdleCall == [pc |-> "idle", attempt |-> 0, wrote |-> FALSE, result |-> FALSE,
             last |-> NoAnswer, slept |-> << >>]

(* variant: the idempotence check is dropped *)
AlreadyReady_Dropped(doc) == FALSE

AlreadyReady(doc) == doc.status = "ready" /\ doc.ready_at # 0

(* variant: the update forgets ready_at *)
MarkUpdates_NoReadyAt(doc, url, now) ==
    LET resolved == OrElse(_as_run_url(url), _as_run_url(doc.endpoint_url))
    IN  IF resolved # NoUrl
        THEN [status |-> "ready", endpoint_url |-> resolved]
        ELSE [status |-> "ready"]

MarkUpdates(doc, url, now) ==
    LET resolved == OrElse(_as_run_url(url), _as_run_url(doc.endpoint_url))
    IN  IF resolved # NoUrl
        THEN [status |-> "ready", ready_at |-> now, endpoint_url |-> resolved]
        ELSE [status |-> "ready", ready_at |-> now]

(* The synchronous head of mark_deployment_ready_and_notify, up to the first
   await (the webhook POST): load, idempotence check, store update. *)
MarkReady(st, d, c, url) ==
    LET doc == get_deployment(st, d)
    IN  IF doc = NoDoc
        THEN /\ store' = st
             /\ calls' = [calls EXCEPT ![d][c] =
                    [pc |-> "done", attempt |-> 0, wrote |-> FALSE, result |-> FALSE,
                     last |-> NoAnswer, slept |-> << >>]]
             /\ UNCHANGED << clock, readyWrites >>
        ELSE IF AlreadyReady(doc)
        THEN /\ store' = st
             /\ calls' = [calls EXCEPT ![d][c] =
                    [pc |-> "done", attempt |-> 0, wrote |-> FALSE, result |-> TRUE,
                     last |-> NoAnswer, slept |-> << >>]]
             /\ UNCHANGED << clock, readyWrites >>
        ELSE /\ clock' = clock + 1
             /\ store' = update_deployment(st, d, MarkUpdates(doc, url, clock + 1))
             /\ readyWrites' = [readyWrites EXCEPT ![d] = @ + 1]
             /\ calls' = [calls EXCEPT ![d][c] =
                    [pc |-> "notify", attempt |-> 0, wrote |-> TRUE, result |-> FALSE,
                     last |-> NoAnswer, slept |-> << >>]]

(* variant: the delivery failure moves the record to webhook_failed *)
FailureUpdates_WebhookFailed ==
    [status |-> "webhook_failed", error |-> "User webhook delivery failed after retries"]

(* the update made when notify() returned False *)
FailureUpdates == [error |-> "User webhook delivery failed after retries"]

(* record_webhook_failure: webhook_delivery_failures_total += 1 *)
record_webhook_failure(m) == m + 1

(* variant: only 200 counts as delivered *)
Delivered_Only200(code) == code = 200

Delivered(code) == 200 <= code /\ code < 300

(* One iteration of the loop of notify(): the POST is answered with `code`
   (or raises). A 2xx answer returns True. Any other outcome sleeps 2^attempt
   seconds unless it was the last attempt; after the last attempt notify
   records the failure and returns False, and the caller writes the error,
   appends the WARNING line and records the failure (no suspension between). *)
NotifyAttempt(d, c, code) ==
    /\ calls[d][c].pc = "notify"
    /\ posts' = [posts EXCEPT ![d] = @ + 1]
    /\ IF Delivered(code)
       THEN /\ delivered' = [delivered EXCEPT ![d] = @ + 1]
            /\ calls' = [calls EXCEPT ![d][c].pc = "done",
                                      ![d][c].attempt = @ + 1,
                                      ![d][c].last = code,
                                      ![d][c].result = TRUE]
            /\ UNCHANGED << store, failures, warnLogs >>
       ELSE /\ delivered' = delivered
            /\ IF calls[d][c].attempt < WebhookMaxRetries - 1
               THEN /\ calls' = [calls EXCEPT ![d][c].attempt = @ + 1,
                                              ![d][c].last = code,
                                              ![d][c].slept = Append(@, 2 ^ calls[d][c].attempt)]
                    /\ UNCHANGED << store, failures, warnLogs >>
               ELSE /\ calls' = [calls EXCEPT ![d][c].pc = "done",
                                              ![d][c].attempt = @ + 1,
                                              ![d][c].last = code,
                                              ![d][c].result = FALSE]
                    /\ store' = update_deployment(store, d, FailureUpdates)
                    /\ warnLogs' = IF store[d] = NoDoc THEN warnLogs
                                   ELSE [warnLogs EXCEPT ![d] = @ + 1]
                    /\ failures' = record_webhook_failure(record_webhook_failure(failures))
    /\ resp' = IF c = "warm" /\ calls'[d][c].pc = "done"
               THEN [resp EXCEPT ![d] = "warm_ready"] ELSE resp
    /\ wf' = IF c = "probe" /\ calls'[d][c].pc = "done"
             THEN [wf EXCEPT ![d].pc = "done"] ELSE wf
    /\ UNCHANGED << prov, tasks, secrets, del, delResp, clock, enqueued,
                    readyWrites, cbCount, docMissing >>
    /\ UNCHANGED sideVars

(* ------------------------------ create ---------------------------------- *)
(* _generate_deployment_id: a fresh id; which of the unused ids is drawn does
   not matter, so the first unused one is taken. *)
FreshId(d) ==
    /\ store[d] = NoDoc
    /\ \A x \in Ids : store[x] = NoDoc      \* the model follows one create request
    /\ \A y \in Ids : ~(y < d)

NoLog == << >>

IdleWf == [pc |-> "none", cand |-> 0, ncand |-> 0, probes |-> 0, hf |-> 0,
           creates |-> 0, last_error |-> "none", log |-> NoLog,
           raised |-> FALSE, timed_out |-> FALSE]

enqueue_orchestration_task(d) ==
    /\ tasks' = [tasks EXCEPT ![d] = @ + 1]
    /\ enqueued' = [enqueued EXCEPT ![d] = @ + 1]

(* create_deployment, warm path: the record is persisted in status ready and
   mark_deployment_ready_and_notify runs up to its webhook POST. *)
CreateWarm(d, user, url) ==
    /\ FreshId(d)
    /\ url # NoUrl
    /\ MarkReady(set_deployment(store, d, NewDoc("ready", user, url, "ep")), d, "warm", url)
    /\ UNCHANGED << wf, prov, tasks, secrets, del, delResp, resp, enqueued,
                    posts, delivered, cbCount, docMissing >>
    /\ UNCHANGED aux

(* variant: the task is enqueued but the record is not written first *)
CreateCold_EnqueueFirst(d, user) ==
    /\ FreshId(d)
    /\ tasks[d] = 0
    /\ store' = store
    /\ secrets' = [secrets EXCEPT ![d] = TRUE]
    /\ enqueue_orchestration_task(d)
    /\ resp' = resp
    /\ UNCHANGED << wf, calls, prov, del, delResp, clock, readyWrites,
                    posts, delivered, cbCount, docMissing >>
    /\ UNCHANGED aux

(* create_deployment, cold path: persist, cache secrets, enqueue. *)
CreateCold(d, user) ==
    /\ FreshId(d)
    /\ store' = set_deployment(store, d, NewDoc("validating", user, NoUrl, "none"))
    /\ secrets' = [secrets EXCEPT ![d] = TRUE]
    /\ enqueue_orchestration_task(d)
    /\ resp' = [resp EXCEPT ![d] = "accepted_cold"]
    /\ UNCHANGED << wf, calls, prov, del, delResp, clock, readyWrites,
                    posts, delivered, cbCount, docMissing >>
    /\ UNCHANGED aux

(* ------------------------ orchestrate_deployment ------------------------ *)
(* exceptions the awaited calls of the workflow raise: class and message *)
Err(kind, message) == [kind |-> kind, message |-> message]

NoError == "none"

HfErrors ==
    { Err("HuggingFaceModelNotFoundError", "Model not found"),
      Err("HuggingFaceModelNotFoundError", "Model validation timed out"),
      Err("Exception", "unexpected") }

ProviderErrors ==
    { Err("RunpodAPIError", "No GPU capacity"),
      Err("RunpodAPIError", "Resource Exhausted in region"),
      Err("RunpodAPIError", "Provider error"),
      Err("Exception", "connection reset") }

(* the errors followed in Spec: one of each class of outcome *)
HfErrorsFollowed == { Err("HuggingFaceModelNotFoundError", "Model not found") }

ProviderErrorsFollowed ==
    { Err("RunpodAPIError", "No GPU capacity"), Err("RunpodAPIError", "Provider error") }

(* str.lower() on the messages the model raises *)
Lower(message) ==
    CASE message = "No GPU capacity" -> "no gpu capacity"
      [] message = "Resource Exhausted in region" -> "resource exhausted in region"
      [] message = "Provider error" -> "provider error"
      [] message = "connection reset" -> "connection reset"
      [] OTHER -> message

CapacityMarkers ==
    { "insufficient", "no gpu", "no capacity", "out of capacity", "unavailable",
      "stock", "resource exhausted" }

(* `marker in m` on the lower-cased messages above *)
Contains(m, marker) ==
    << m, marker >> \in { << "no gpu capacity", "no gpu" >>,
                          << "resource exhausted in region", "resource exhausted" >> }

(* variant: the message is not lower-cased before the markers are looked up *)
is_capacity_error_CaseSensitive(message) ==
    \E marker \in CapacityMarkers : Contains(message, marker)

is_capacity_error(message) ==
    \E marker \in CapacityMarkers : Contains(Lower(message), marker)

(* variant: the last handler is missing, an unexpected exception escapes *)
Caught_KnownOnly(kind) ==
    kind \in {"HuggingFaceModelNotFoundError", "RunpodInsufficientGPUError", "RunpodAPIError"}

(* the except clauses of the workflow's try block *)
Caught(kind) ==
    kind \in {"HuggingFaceModelNotFoundError", "RunpodInsufficientGPUError", "RunpodAPIError"}
    \/ TRUE      \* except Exception

Fail(st, d, err) == update_deployment(st, d, [status |-> "failed", error |-> err])

(* log_step: one entry << level, message, argument >> appended to the
   deployment's log by the workflow *)
log_step(w, level, msg, arg) == [w EXCEPT !.log = Append(@, << level, msg, arg >>)]

(* variant: the handlers record the failure at WARNING level *)
Handled_Warning(w, e) ==
    IF Caught(e.kind)
    THEN [log_step(w, "WARNING", e.message, 0) EXCEPT !.pc = "done", !.last_error = NoError]
    ELSE [w EXCEPT !.pc = "done", !.raised = TRUE, !.last_error = NoError]

(* An exception reaches the end of the try block: a handler that catches it
   writes failed and the message and logs it at ERROR level, and the workflow
   returns; one that no handler catches leaves orchestrate_deployment. *)
Handled(w, e) ==
    IF Caught(e.kind)
    THEN [log_step(w, "ERROR", e.message, 0) EXCEPT !.pc = "done", !.last_error = NoError]
    ELSE [w EXCEPT !.pc = "done", !.raised = TRUE, !.last_error = NoError]

HandledStore(st, d, e) == IF Caught(e.kind) THEN Fail(st, d, e.message) ELSE st

(* Task start up to the await of validate_model. The provider key is always
   passed by the create handler, so the cached-secret fallback is not taken. *)
OrchStartBody(d) ==
    /\ tasks[d] > 0
    /\ wf[d].pc = "none"
    /\ tasks' = [tasks EXCEPT ![d] = @ - 1]
    /\ IF get_deployment(store, d) = NoDoc
       THEN /\ docMissing' = [docMissing EXCEPT ![d] = TRUE]
            /\ wf' = [wf EXCEPT ![d].pc = "done"]
            /\ store' = store
       ELSE /\ docMissing' = docMissing
            /\ wf' = [wf EXCEPT ![d] =
                         [log_step(@, "INFO", "Validating Hugging Face model", 0)
                             EXCEPT !.pc = "validate_hf"]]
            /\ store' = update_deployment(store, d, [status |-> "validating"])
    /\ UNCHANGED << calls, prov, secrets, del, delResp, resp, clock, enqueued,
                    readyWrites, posts, delivered, cbCount >>

(* the task runs, dispatched in-process or by an authorised trampoline request *)
OrchStart(d) ==
    /\ OrchStartBody(d)
    /\ UNCHANGED aux

(* validate_model returned: select GPU candidates (n of them) and enter the
   create loop; an empty candidate list raises RunpodInsufficientGPUError. *)
OrchValidated(d, n) ==
    /\ wf[d].pc = "validate_hf"
    /\ LET st1 == update_deployment(store, d, [status |-> "selecting_gpu"])
           w1 == [log_step(wf[d], "INFO", "HF model validated", 0) EXCEPT !.hf = 0]
           e == Err("RunpodInsufficientGPUError", "No GPU available")
       IN  IF n = 0
           THEN /\ store' = HandledStore(st1, d, e)
                /\ wf' = [wf EXCEPT ![d] = Handled(w1, e)]
           ELSE /\ store' = update_deployment(st1, d, [status |-> "creating_endpoint"])
                /\ wf' = [wf EXCEPT ![d] =
                             [log_step(w1, "INFO", "Selected GPU candidates", n)
                                 EXCEPT !.pc = "create", !.cand = 1, !.ncand = n]]
    /\ UNCHANGED << calls, prov, tasks, secrets, del, delResp, resp, clock,
                    enqueued, readyWrites, posts, delivered, cbCount, docMissing >>
    /\ UNCHANGED aux

(* The model lookup was answered 429 on an attempt that is not the last one:
   _check sleeps 2^attempt seconds and looks the model up again. *)
HfRetry(d) ==
    /\ wf[d].pc = "validate_hf"
    /\ wf[d].hf < HfMaxAttempts - 1
    /\ wf' = [wf EXCEPT ![d].hf = @ + 1]
    /\ UNCHANGED << store, calls, prov, tasks, secrets, del, delResp, resp, clock,
                    enqueued, readyWrites, posts, delivered, cbCount, docMissing >>
    /\ UNCHANGED aux

(* validate_model raised (model not found, timeout, any exception; a 429 on
   the last attempt): no further lookup is made. *)
OrchValidateFailed(d, e) ==
    /\ wf[d].pc = "validate_hf"
    /\ store' = HandledStore(store, d, e)
    /\ wf' = [wf EXCEPT ![d] = [Handled(@, e) EXCEPT !.hf = 0]]
    /\ UNCHANGED << calls, prov, tasks, secrets, del, delResp, resp, clock,
                    enqueued, readyWrites, posts, delivered, cbCount, docMissing >>
    /\ UNCHANGED aux

(* The provider creates the endpoint (its worker starts); the answer to
   provider.create_endpoint is still in flight. *)
ProviderCreateOk(d) ==
    /\ wf[d].pc = "create"
    /\ prov' = [prov EXCEPT ![d] = "live"]
    /\ wf' = [wf EXCEPT ![d].pc = "create_returned", ![d].creates = @ + 1,
                        ![d].last_error = NoError]
    /\ UNCHANGED << store, calls, tasks, secrets, del, delResp, resp, clock,
                    enqueued, readyWrites, posts, delivered, cbCount, docMissing >>
    /\ UNCHANGED aux

(* variant: the loop stops at the first capacity error *)
ProviderCreateCapacity_NoRotation(d, e) ==
    /\ wf[d].pc = "create"
    /\ e.kind = "RunpodAPIError" /\ is_capacity_error(e.message)
    /\ LET w1 == [log_step(wf[d], "WARNING", "GPU candidate unavailable", wf[d].cand)
                     EXCEPT !.creates = @ + 1, !.last_error = e.message]
       IN  /\ wf' = [wf EXCEPT ![d] = Handled(w1, e)]
           /\ store' = HandledStore(store, d, e)
    /\ UNCHANGED << calls, prov, tasks, secrets, del, delResp, resp, clock,
                    enqueued, readyWrites, posts, delivered, cbCount, docMissing >>
    /\ UNCHANGED aux

(* provider.create_endpoint raised a capacity error for the current
   candidate: a WARNING naming the candidate, then the next candidate, or the
   last error is raised when there is none. *)
ProviderCreateCapacity(d, e) ==
    /\ wf[d].pc = "create"
    /\ e.kind = "RunpodAPIError" /\ is_capacity_error(e.message)
    /\ LET w1 == [log_step(wf[d], "WARNING", "GPU candidate unavailable", wf[d].cand)
                     EXCEPT !.creates = @ + 1, !.last_error = e.message]
       IN  IF wf[d].cand < wf[d].ncand
           THEN /\ wf' = [wf EXCEPT ![d] = [w1 EXCEPT !.cand = @ + 1]]
                /\ store' = store
           ELSE /\ wf' = [wf EXCEPT ![d] = Handled(w1, Err("RunpodAPIError", w1.last_error))]
                /\ store' = HandledStore(store, d, Err("RunpodAPIError", w1.last_error))
    /\ UNCHANGED << calls, prov, tasks, secrets, del, delResp, resp, clock,
                    enqueued, readyWrites, posts, delivered, cbCount, docMissing >>
    /\ UNCHANGED aux

(* variant: an error that is no capacity error moves on to the next
   candidate too *)
ProviderCreateFatal_Continues(d, e) ==
    /\ wf[d].pc = "create"
    /\ ~(e.kind = "RunpodAPIError" /\ is_capacity_error(e.message))
    /\ LET w1 == [wf[d] EXCEPT !.creates = @ + 1, !.last_error = e.message]
       IN  IF wf[d].cand < wf[d].ncand
           THEN /\ wf' = [wf EXCEPT ![d] = [w1 EXCEPT !.cand = @ + 1]]
                /\ store' = store
           ELSE /\ wf' = [wf EXCEPT ![d] = Handled(w1, e)]
                /\ store' = HandledStore(store, d, e)
    /\ UNCHANGED << calls, prov, tasks, secrets, del, delResp, resp, clock,
                    enqueued, readyWrites, posts, delivered, cbCount, docMissing >>
    /\ UNCHANGED aux

(* provider.create_endpoint raised an error that is no capacity error (or no
   RunpodAPIError at all): it leaves the loop at once. *)
ProviderCreateFatal(d, e) ==
    /\ wf[d].pc = "create"
    /\ ~(e.kind = "RunpodAPIError" /\ is_capacity_error(e.message))
    /\ wf' = [wf EXCEPT ![d] = Handled([@ EXCEPT !.creates = @ + 1], e)]
    /\ store' = HandledStore(store, d, e)
    /\ UNCHANGED << calls, prov, tasks, secrets, del, delResp, resp, clock,
                    enqueued, readyWrites, posts, delivered, cbCount, docMissing >>
    /\ UNCHANGED aux

(* display name of the candidate at position k of gpu_candidates *)
Display(k) == k

(* The workflow resumes after create: persists the endpoint and the display
   name of the candidate that succeeded, writes loading_model and runs the
   first monitor iteration up to the probe. *)
OrchEndpointCreated(d) ==
    /\ wf[d].pc = "create_returned"
    /\ LET st1 == update_deployment(store, d,
                      [runpod_endpoint_id |-> "ep", endpoint_url |-> RunUrl,
                       gpu_allocated |-> Display(wf[d].cand)])
           st2 == update_deployment(st1, d, [status |-> "loading_model"])
           w1 == log_step(log_step(wf[d], "INFO", "Runpod endpoint created", 0),
                          "INFO", "Waiting for model load signal from worker", 0)
       IN  /\ store' = st2
           /\ wf' = [wf EXCEPT ![d] =
                        [w1 EXCEPT !.pc =
                            IF get_deployment(st2, d) = NoDoc
                               \/ get_deployment(st2, d).status \in TerminalStatuses
                            THEN "done" ELSE "probe"]]
    /\ UNCHANGED << calls, prov, tasks, secrets, del, delResp, resp, clock,
                    enqueued, readyWrites, posts, delivered, cbCount, docMissing >>
    /\ UNCHANGED aux

(* _probe_runpod_readiness answered OK with pipeline_loaded. *)
OrchProbeReady(d) ==
    /\ wf[d].pc = "probe"
    /\ prov[d] = "live"
    /\ MarkReady(store, d, "probe", _as_run_url(RunUrl))
    /\ wf' = [wf EXCEPT ![d] =
                 [log_step(@, "INFO", "Readiness probe succeeded; marking deployment ready", 0)
                     EXCEPT !.pc = IF calls'[d]["probe"].pc = "done" THEN "done" ELSE "notify"]]
    /\ UNCHANGED << prov, tasks, secrets, del, delResp, resp, enqueued,
                    posts, delivered, cbCount, docMissing >>
    /\ UNCHANGED aux

(* The probe answered "still warming" (no probe error) or failed (a probe
   error, logged at WARNING level): sleep 8 s. *)
OrchProbeNotReady(d, probe_error) ==
    /\ wf[d].pc = "probe"
    /\ wf[d].probes < MaxProbes
    /\ wf' = [wf EXCEPT ![d] =
                 [(IF probe_error THEN log_step(@, "WARNING", "Readiness probe retry", 0) ELSE @)
                     EXCEPT !.pc = "sleep", !.probes = @ + 1]]
    /\ UNCHANGED << store, calls, prov, tasks, secrets, del, delResp, resp, clock,
                    enqueued, readyWrites, posts, delivered, cbCount, docMissing >>
    /\ UNCHANGED aux

(* variant: the monitor that gives up marks the deployment failed *)
OrchMonitorTick_FailsOnTimeout(d, timedOut) ==
    /\ wf[d].pc = "sleep"
    /\ LET latest == get_deployment(store, d)
           gaveUp == latest # NoDoc /\ latest.status \notin TerminalStatuses /\ timedOut
       IN  /\ wf' = [wf EXCEPT ![d] =
                        IF gaveUp
                        THEN [log_step(@, "WARNING",
                                       "Readiness monitor timed out; waiting for worker webhook", 0)
                                 EXCEPT !.pc = "done", !.timed_out = TRUE]
                        ELSE IF latest = NoDoc \/ latest.status \in TerminalStatuses
                        THEN [@ EXCEPT !.pc = "done"]
                        ELSE [@ EXCEPT !.pc = "probe"]]
           /\ store' = IF gaveUp THEN Fail(store, d, "Readiness monitor timed out") ELSE store
    /\ UNCHANGED << calls, prov, tasks, secrets, del, delResp, resp, clock,
                    enqueued, readyWrites, posts, delivered, cbCount, docMissing >>
    /\ UNCHANGED aux

(* Next monitor iteration: re-read the record, stop on a terminal status or
   on the 15-minute limit (with a WARNING), else probe again. *)
OrchMonitorTick(d, timedOut) ==
    /\ wf[d].pc = "sleep"
    /\ LET latest == get_deployment(store, d)
       IN  wf' = [wf EXCEPT ![d] =
                     IF latest = NoDoc THEN [@ EXCEPT !.pc = "done"]
                     ELSE IF latest.status \in TerminalStatuses THEN [@ EXCEPT !.pc = "done"]
                     ELSE IF timedOut
                     THEN [log_step(@, "WARNING",
                                    "Readiness monitor timed out; waiting for worker webhook", 0)
                              EXCEPT !.pc = "done", !.timed_out = TRUE]
                     ELSE [@ EXCEPT !.pc = "probe"]]
    /\ UNCHANGED << store, calls, prov, tasks, secrets, del, delResp, resp, clock,
                    enqueued, readyWrites, posts, delivered, cbCount, docMissing >>
    /\ UNCHANGED aux

(* ---------------------- internal worker callback ------------------------ *)
PhaseUpdates(status, url) ==
    LET resolved == _as_run_url(url)
        base == IF status = "failed"
                THEN [status |-> status, error |-> "Worker reported failure"]
                ELSE [status |-> status]
    IN  IF resolved # NoUrl
        THEN [f \in DOMAIN base \cup {"endpoint_url"} |->
                 IF f = "endpoint_url" THEN resolved ELSE base[f]]
        ELSE base

update_deployment_phase_from_worker(st, d, status, url) ==
    LET doc == get_deployment(st, d)
    IN  IF doc = NoDoc THEN st
        ELSE IF doc.status = "ready" /\ status # "failed" THEN st
        ELSE update_deployment(st, d, PhaseUpdates(status, url))

(* The body of deployment_ready once the secret was accepted, for a callback
   of the worker of the endpoint created for this deployment. *)
DeploymentReadyBody(d, status, url) ==
    /\ prov[d] # "none"
    /\ cbCount[d] < MaxCallbacks
    /\ cbCount' = [cbCount EXCEPT ![d] = @ + 1]
    /\ IF status = "ready"
       THEN /\ calls[d]["worker"].pc # "notify"
            /\ MarkReady(store, d, "worker", url)
       ELSE /\ store' = update_deployment_phase_from_worker(store, d, status, url)
            /\ UNCHANGED << calls, clock, readyWrites >>
    /\ UNCHANGED << wf, prov, tasks, secrets, del, delResp, resp, enqueued,
                    posts, delivered, docMissing >>

(* POST /internal/deployment-ready/{id}, sent by the worker with the secret
   it was started with. *)
WorkerCallback(d, status, url) ==
    /\ DeploymentReadyBody(d, status, url)
    /\ UNCHANGED aux

(* ------------------------------- delete --------------------------------- *)
Owns(doc, caller) == ~(doc.user_hash # "" /\ doc.user_hash # caller)

(* delete_deployment up to its await of provider.delete_endpoint, or to its
   end when the record has no endpoint id. *)
DeleteRequest(d, caller) ==
    /\ del[d] = "idle"
    /\ Len(delResp[d]) < MaxDeletes
    /\ LET doc == get_deployment(store, d)
       IN  /\ doc # NoDoc
           /\ IF ~Owns(doc, caller)
              THEN /\ delResp' = [delResp EXCEPT ![d] = Append(@, << caller, 404 >>)]
                   /\ UNCHANGED << store, del >>
              ELSE IF doc.runpod_endpoint_id # "none"
              THEN /\ del' = [del EXCEPT ![d] = caller]
                   /\ UNCHANGED << store, delResp >>
              ELSE /\ store' = update_deployment(store, d, [status |-> "deleted"])
                   /\ delResp' = [delResp EXCEPT ![d] = Append(@, << caller, 204 >>)]
                   /\ del' = del
    /\ UNCHANGED << wf, calls, prov, tasks, secrets, resp, clock, enqueued,
                    readyWrites, posts, delivered, cbCount, docMissing >>
    /\ UNCHANGED aux

(* provider.delete_endpoint returned or raised (swallowed); the record is
   marked deleted and 204 is answered. *)
DeleteFinish(d, ok) ==
    /\ del[d] # "idle"
    /\ prov' = IF ok /\ prov[d] = "live" THEN [prov EXCEPT ![d] = "deleted"] ELSE prov
    /\ store' = update_deployment(store, d, [status |-> "deleted"])
    /\ delResp' = [delResp EXCEPT ![d] = Append(@, << del[d], 204 >>)]
    /\ del' = [del EXCEPT ![d] = "idle"]
    /\ UNCHANGED << wf, calls, tasks, secrets, resp, clock, enqueued,
                    readyWrites, posts, delivered, cbCount, docMissing >>
    /\ UNCHANGED aux

(* ------------------- tenant-scoped reads of a record -------------------- *)
TenantIdle == [op |-> "none", id |-> 0, caller |-> "none", code |-> 0,
               error |-> "none", doc |-> NoDoc]

(* DeploymentNotFoundError: 404 with the requested id only *)
DeploymentNotFoundError(op, d, caller) ==
    [op |-> op, id |-> d, caller |-> caller, code |-> 404,
     error |-> "DeploymentNotFound", doc |-> NoDoc]

(* GET /v1/deployments/{id} *)
get_deployment_status(st, d, caller) ==
    LET doc == get_deployment(st, d)
    IN  IF doc = NoDoc THEN DeploymentNotFoundError("get", d, caller)
        ELSE IF ~Owns(doc, caller) THEN DeploymentNotFoundError("get", d, caller)
        ELSE [op |-> "get", id |-> d, caller |-> caller, code |-> 200,
              error |-> "none", doc |-> doc]

(* GET /v1/deployments/{id}/logs/stream: the check made before the stream opens *)
stream_deployment_logs(st, d, caller) ==
    LET doc == get_deployment(st, d)
    IN  IF doc = NoDoc \/ ~Owns(doc, caller) THEN DeploymentNotFoundError("logs", d, caller)
        ELSE [op |-> "logs", id |-> d, caller |-> caller, code |-> 200,
              error |-> "none", doc |-> NoDoc]

TenantVarsUnchanged ==
    UNCHANGED << store, wf, calls, prov, tasks, secrets, del, delResp, resp, clock,
                 enqueued, readyWrites, posts, delivered, cbCount, docMissing,
                 failures, warnLogs, gpu, rate, intake, intl, cln, repo, est, disp, logsse >>

GetStatus(d, caller) ==
    /\ tenant' = get_deployment_status(store, d, caller)
    /\ sse' = sse
    /\ TenantVarsUnchanged

LogStreamOpen(d, caller) ==
    /\ tenant' = stream_deployment_logs(store, d, caller)
    /\ sse' = sse
    /\ TenantVarsUnchanged

(* DELETE /v1/deployments/{id} for an id without a record *)
DeleteMissing(d, caller) ==
    /\ get_deployment(store, d) = NoDoc
    /\ tenant' = DeploymentNotFoundError("delete", d, caller)
    /\ sse' = sse
    /\ TenantVarsUnchanged

(* ---------------------- the status event stream ------------------------- *)
SseIdle == [pc |-> "none", id |-> 0, caller |-> "none", code |-> 0,
            last_status |-> "none", events |-> << >>]

(* GET /v1/deployments/{id}/stream: the StreamingResponse is returned (200)
   before the generator runs. *)
StreamOpen(d, caller) ==
    /\ sse.pc = "none"
    /\ sse' = [pc |-> "poll", id |-> d, caller |-> caller, code |-> 200,
               last_status |-> "none", events |-> << >>]
    /\ tenant' = tenant
    /\ TenantVarsUnchanged

(* variant: the status of the emitted event is not remembered *)
StreamPoll_Forgets ==
    /\ sse.pc = "poll"
    /\ LET doc == get_deployment(store, sse.id)
       IN  IF doc = NoDoc \/ ~Owns(doc, sse.caller)
           THEN sse' = [sse EXCEPT !.pc = "closed",
                            !.events = Append(@, [event |-> "error", status |-> "none",
                                                  error |-> "not_found"])]
           ELSE sse' = [sse EXCEPT
                            !.events = IF doc.status # sse.last_status
                                       THEN Append(@, [event |-> "status", status |-> doc.status,
                                                       error |-> doc.error])
                                       ELSE @,
                            !.pc = IF doc.status \in TerminalStatuses THEN "closed" ELSE "poll"]
    /\ tenant' = tenant
    /\ TenantVarsUnchanged

(* One iteration of event_generator, from the read of the record to the
   sleep: error event and end for a missing or foreign record; a status event
   when the status differs from the last one emitted; end on a terminal
   status. *)
StreamPoll ==
    /\ sse.pc = "poll"
    /\ LET doc == get_deployment(store, sse.id)
       IN  IF doc = NoDoc \/ ~Owns(doc, sse.caller)
           THEN sse' = [sse EXCEPT !.pc = "closed",
                            !.events = Append(@, [event |-> "error", status |-> "none",
                                                  error |-> "not_found"])]
           ELSE sse' = [sse EXCEPT
                            !.events = IF doc.status # sse.last_status
                                       THEN Append(@, [event |-> "status", status |-> doc.status,
                                                       error |-> doc.error])
                                       ELSE @,
                            !.last_status = doc.status,
                            !.pc = IF doc.status \in TerminalStatuses THEN "closed" ELSE "poll"]
    /\ tenant' = tenant
    /\ TenantVarsUnchanged

(* request.is_disconnected(): the client went away *)
StreamDisconnect ==
    /\ sse.pc = "poll"
    /\ sse' = [sse EXCEPT !.pc = "disconnected"]
    /\ tenant' = tenant
    /\ TenantVarsUnchanged

(* ----------------------------- GPU selection --------------------------- *)
GPUSpec(id, display, vram, cost) ==
    [id |-> id, display |-> display, vram |-> vram, cost_index |-> cost]

DEFAULT_GPU_REGISTRY ==
    << GPUSpec("AMPERE_16", << "NVIDIA A16" >>, 16, 1),
       GPUSpec("AMPERE_24", << "NVIDIA A10 / A30" >>, 24, 2),
       GPUSpec("ADA_24", << "NVIDIA L40 / RTX 4090" >>, 24, 3),
       GPUSpec("AMPERE_48", << "NVIDIA A40" >>, 48, 5),
       GPUSpec("ADA_48_PRO", << "NVIDIA L40S" >>, 48, 6),
       GPUSpec("AMPERE_80", << "NVIDIA A100" >>, 80, 8),
       GPUSpec("ADA_80_PRO", << "NVIDIA H100" >>, 80, 10) >>

DEFAULT_TIER_MAPPING ==
    [ ECONOMY |-> << "AMPERE_16", "AMPERE_24" >>,
      STANDARD |-> << "ADA_24", "AMPERE_24" >>,
      PRO |-> << "AMPERE_48", "ADA_48_PRO" >>,
      ULTIMATE |-> << "AMPERE_80", "ADA_80_PRO" >>,
      A16 |-> << "AMPERE_16" >>,
      A10 |-> << "AMPERE_24" >>,
      A40 |-> << "AMPERE_48" >>,
      A100 |-> << "AMPERE_80" >>,
      H100 |-> << "ADA_80_PRO" >> ] @@ ("4090" :> << "ADA_24" >>)

NoGpu == "None"          \* Python's None as a GPU id
NoTier == ""             \* no gpu_tier given
NoMapping == << >>       \* an empty tier mapping (a function with empty domain)

(* gpu_tier.strip().upper() on the tier names the model passes *)
Normalized(tier) ==
    CASE tier \in {"a10", " A10 ", "A10"} -> "A10"
      [] tier \in {"economy", "ECONOMY"} -> "ECONOMY"
      [] tier \in {"t", "T"} -> "T"
      [] OTHER -> tier

Range(seq) == { seq[i] : i \in DOMAIN seq }

(* `registry if registry else DEFAULT_GPU_REGISTRY` *)
EffectiveRegistry(registry) == IF registry = << >> THEN DEFAULT_GPU_REGISTRY ELSE registry

EffectiveMapping(mapping) == IF DOMAIN mapping = {} THEN DEFAULT_TIER_MAPPING ELSE mapping

(* mapping.get(normalized, []) when a tier is given *)
TierCandidates(tier, mapping) ==
    LET m == EffectiveMapping(mapping)
    IN  IF tier = NoTier THEN << >>
        ELSE IF Normalized(tier) \in DOMAIN m THEN m[Normalized(tier)] ELSE << >>

(* the sort key (cost_index, vram), compared as Python compares tuples *)
KeyLess(a, b) ==
    \/ a.cost_index < b.cost_index
    \/ a.cost_index = b.cost_index /\ a.vram < b.vram

(* sorted(): stable, so entries with equal keys keep their registry order *)
RECURSIVE InsertSorted(_, _)
InsertSorted(x, s) ==
    IF s = << >> THEN << x >>
    ELSE IF KeyLess(x, Head(s)) THEN << x >> \o s
    ELSE << Head(s) >> \o InsertSorted(x, Tail(s))

RECURSIVE Sorted(_)
Sorted(reg) ==
    IF reg = << >> THEN << >>
    ELSE InsertSorted(reg[Len(reg)], Sorted(SubSeq(reg, 1, Len(reg) - 1)))

RECURSIVE FirstFit(_, _, _)
FirstFit(s, vram_gb, ids) ==
    IF s = << >> THEN NoGpu
    ELSE IF Head(s).id \in ids /\ Head(s).vram >= vram_gb THEN Head(s).id
    ELSE FirstFit(Tail(s), vram_gb, ids)

AllIds(reg) == { reg[i].id : i \in DOMAIN reg }

(* variant: the tier pass forgets the VRAM requirement *)
select_gpu_id_for_vram_TierNoVram(vram_gb, gpu_tier, registry, tier_mapping) ==
    LET reg == EffectiveRegistry(registry)
        tier_candidates == TierCandidates(gpu_tier, tier_mapping)
        sorted_registry == Sorted(reg)
        in_tier == FirstFit(sorted_registry, 0, Range(tier_candidates))
    IN  IF tier_candidates # << >> /\ in_tier # NoGpu THEN in_tier
        ELSE FirstFit(sorted_registry, vram_gb, AllIds(reg))

select_gpu_id_for_vram(vram_gb, gpu_tier, registry, tier_mapping) ==
    LET reg == EffectiveRegistry(registry)
        tier_candidates == TierCandidates(gpu_tier, tier_mapping)
        sorted_registry == Sorted(reg)
        in_tier == FirstFit(sorted_registry, vram_gb, Range(tier_candidates))
    IN  IF tier_candidates # << >> /\ in_tier # NoGpu THEN in_tier
        ELSE FirstFit(sorted_registry, vram_gb, AllIds(reg))

RECURSIVE Fitting(_, _, _)
Fitting(s, vram_gb, ids) ==
    IF s = << >> THEN << >>
    ELSE IF Head(s).id \in ids /\ Head(s).vram >= vram_gb
         THEN << Head(s).id >> \o Fitting(Tail(s), vram_gb, ids)
         ELSE Fitting(Tail(s), vram_gb, ids)

(* The candidate list of section 4.1: the fitting entries of the tier's
   candidate set in sorted order, then the remaining fitting entries. *)
select_gpu_candidates_for_vram(vram_gb, gpu_tier, registry, tier_mapping) ==
    LET reg == EffectiveRegistry(registry)
        tier_ids == Range(TierCandidates(gpu_tier, tier_mapping))
        sorted_registry == Sorted(reg)
    IN  Fitting(sorted_registry, vram_gb, tier_ids)
            \o Fitting(sorted_registry, vram_gb, AllIds(reg) \ tier_ids)

RECURSIVE DisplayIn(_, _)
DisplayIn(reg, gpu_id) ==
    IF reg = << >> THEN << "NVIDIA", gpu_id >>
    ELSE IF Head(reg).id = gpu_id THEN Head(reg).display
    ELSE DisplayIn(Tail(reg), gpu_id)

gpu_id_to_display_name(gpu_id, registry) == DisplayIn(EffectiveRegistry(registry), gpu_id)

(* select_gpu_candidates: RunpodInsufficientGPUError(vram_gb) on an empty
   list, else the (id, display name) pairs *)
select_gpu_candidates(vram_gb, gpu_tier, registry, tier_mapping) ==
    LET ids == select_gpu_candidates_for_vram(vram_gb, gpu_tier, registry, tier_mapping)
    IN  IF ids = << >>
        THEN [error |-> "InsufficientGPU", required_vram_gb |-> vram_gb, list |-> << >>]
        ELSE [error |-> "none", required_vram_gb |-> vram_gb,
              list |-> [i \in DOMAIN ids |-> << ids[i], gpu_id_to_display_name(ids[i], registry) >>]]

GpuIdle ==
    [vram_gb |-> 0, gpu_tier |-> NoTier, registry |-> << >>, tier_mapping |-> NoMapping,
     done |-> FALSE, first |-> NoGpu,
     candidates |-> [error |-> "none", required_vram_gb |-> 0, list |-> << >>]]

(* the selector is applied to the inputs drawn by the initial state *)
SelectGpu ==
    /\ ~gpu.done
    /\ gpu' = [gpu EXCEPT
                  !.done = TRUE,
                  !.first = select_gpu_id_for_vram(gpu.vram_gb, gpu.gpu_tier,
                                                   gpu.registry, gpu.tier_mapping),
                  !.candidates = select_gpu_candidates(gpu.vram_gb, gpu.gpu_tier,
                                                       gpu.registry, gpu.tier_mapping)]
    /\ UNCHANGED << store, wf, calls, prov, tasks, secrets, del, delResp, resp, clock,
                    enqueued, readyWrites, posts, delivered, cbCount, docMissing,
                    failures, warnLogs, tenant, rate, sse, intake, intl, cln, repo, est, disp, logsse >>

(* registries, mappings, requirements and tiers the selector is applied to *)
PoolIds == {"G1", "G2", "G3"}
PoolVram == {16, 24}
PoolCost == {1, 2}
PoolVramNeeds == {8, 24, 48}

PoolEntries ==
    { GPUSpec(i, << "NVIDIA", i >>, v, c) : i \in PoolIds, v \in PoolVram, c \in PoolCost }

UniqueIds(reg) == \A i, j \in DOMAIN reg : i # j => reg[i].id # reg[j].id

Registries ==
    { reg \in UNION { [1..n -> PoolEntries] : n \in 0..MaxRegistry } : UniqueIds(reg) }
        \cup {DEFAULT_GPU_REGISTRY}

TierMappings ==
    { NoMapping, [T |-> << "G2" >>], [T |-> << "G3", "G1" >>], [T |-> << >>] }

TierNames == {NoTier, "T", "t", "A10", "X"}

(* ---------------------------- rate limiting ---------------------------- *)
RateUsers == {"userA", "userB", "userC"}     \* user_hash of the bearer token
ClientIps == {"ip1"}
Subjects == RateUsers \cup ClientIps

RECURSIVE Filter(_, _)
Filter(s, window_start) ==
    IF s = << >> THEN << >>
    ELSE IF Head(s) > window_start
         THEN << Head(s) >> \o Filter(Tail(s), window_start)
         ELSE Filter(Tail(s), window_start)

(* variant: the bucket is not pruned *)
Pruned_Kept(bucket, now) == bucket

(* store[:] = [t for t in store if t > window_start] *)
Pruned(bucket, now) == Filter(bucket, now - RATE_LIMIT_WINDOW)

(* variant: the bound is checked with > instead of >= *)
_check_rate_limit_OffByOne(bucket, limit, now) ==
    LET kept == Pruned(bucket, now)
    IN  IF Len(kept) > limit
        THEN [ok |-> FALSE, bucket |-> kept]
        ELSE [ok |-> TRUE, bucket |-> Append(kept, now)]

(* _check_rate_limit on one subject's bucket: the bucket it leaves and
   whether it returned (ok) or raised RateLimitError *)
_check_rate_limit(bucket, limit, now) ==
    LET kept == Pruned(bucket, now)
    IN  IF Len(kept) >= limit
        THEN [ok |-> FALSE, bucket |-> kept]
        ELSE [ok |-> TRUE, bucket |-> Append(kept, now)]

NoVerdict ==
    [user |-> "none", ip |-> "none", code |-> 0, retry_after_seconds |-> 0,
     at |-> 0, checked |-> {}, dropped |-> 0]

RateIdle ==
    [now |-> 0,
     bucket |-> [s \in Subjects |-> << >>],
     recent |-> [s \in Subjects |-> << >>],    \* accepted requests of the last 60 s
     last |-> NoVerdict]

RateVarsUnchanged ==
    UNCHANGED << store, wf, calls, prov, tasks, secrets, del, delResp, resp, clock,
                 enqueued, readyWrites, posts, delivered, cbCount, docMissing,
                 failures, warnLogs, tenant, gpu, sse, intake, intl, cln, repo, est, disp, logsse >>

(* get_request_context: the check for the user_hash, then (if it passed) the
   check for the client IP with twice the limit; RateLimitError is 429 with
   retry_after_seconds = 60. *)
RateRequest(user, ip) ==
    LET now == rate.now
        u == _check_rate_limit(rate.bucket[user], RateLimitPerMinute, now)
        i == _check_rate_limit(rate.bucket[ip], RateLimitPerMinute * 2, now)
        ok == u.ok /\ i.ok
    IN  /\ rate' = [rate EXCEPT
                !.bucket = [s \in Subjects |->
                               IF s = user THEN u.bucket
                               ELSE IF s = ip /\ u.ok THEN i.bucket
                               ELSE rate.bucket[s]],
                !.recent = [s \in Subjects |->
                               IF ok /\ s \in {user, ip} THEN Append(rate.recent[s], now)
                               ELSE rate.recent[s]],
                !.last = [user |-> user, ip |-> ip,
                          code |-> IF ok THEN 200 ELSE 429,
                          retry_after_seconds |-> IF ok THEN 0 ELSE 60,
                          at |-> now,
                          checked |-> IF u.ok THEN {user, ip} ELSE {user},
                          dropped |-> Len(rate.bucket[user]) - Len(Pruned(rate.bucket[user], now))]]
        /\ RateVarsUnchanged

(* time.monotonic() advances; the accepted requests older than the window
   leave the record of recent ones *)
RateTick ==
    /\ rate.now + TickSeconds <= MaxTime
    /\ rate' = [rate EXCEPT
                  !.now = @ + TickSeconds,
                  !.recent = [s \in Subjects |->
                                 Filter(rate.recent[s],
                                        rate.now + TickSeconds - RATE_LIMIT_WINDOW)]]
    /\ RateVarsUnchanged

(* ------------------------ create request intake ------------------------- *)
NoEndpoint == [absent |-> TRUE]

ProviderEndpointSummary(name, status, url) ==
    [id |-> "ep", name |-> name, status |-> status, url |-> url]

(* visgate-<hash10>-<slug> and visgate-pool-<slug>, for the one model requested *)
user_endpoint_name(user_hash) == << "visgate", user_hash, "m" >>

pool_endpoint_name == << "visgate", "pool", "m" >>

(* str.upper() on the endpoint statuses the model lists *)
Upper(status) ==
    CASE status = "terminated" -> "TERMINATED"
      [] status = "running" -> "RUNNING"
      [] OTHER -> status

(* variant: the status is compared without upper() *)
_is_warm_status_CaseSensitive(status) ==
    status \notin {"TERMINATED", "DELETED", "FAILED", "STOPPED"}

_is_warm_status(status) ==
    Upper(status) \notin {"TERMINATED", "DELETED", "FAILED", "STOPPED"}

(* warm_names: the caller's name, and the pool name when the pool policy of
   the model is warm *)
warm_names(user_hash, is_warm) ==
    IF is_warm THEN {user_endpoint_name(user_hash), pool_endpoint_name}
    ELSE {user_endpoint_name(user_hash)}

(* the first endpoint of the list with a warm name and a warm status *)
RECURSIVE FirstWarm(_, _)
FirstWarm(endpoints, names) ==
    IF endpoints = << >> THEN NoEndpoint
    ELSE IF Head(endpoints).name \in names /\ _is_warm_status(Head(endpoints).status)
         THEN Head(endpoints)
         ELSE FirstWarm(Tail(endpoints), names)

(* warm discovery: an exception of list_endpoints is logged and swallowed *)
warm_endpoint(req) ==
    IF req.list_raises THEN NoEndpoint
    ELSE FirstWarm(req.endpoints, warm_names(req.user, req.pool_is_warm))

(* MODEL_NAME_TO_HF, for the aliases the model sends *)
get_hf_name(model_name) ==
    IF model_name = "flux-schnell" THEN "black-forest-labs/FLUX.1-schnell" ELSE "UnknownModel"

(* variant: hf_model_id wins when both are given *)
_resolve_hf_model_id_AllowsBoth(req) ==
    IF req.hf_model_id # ""
    THEN req.hf_model_id
    ELSE IF req.model_name = "" THEN "InvalidRequest"
    ELSE get_hf_name(req.model_name)

(* the HF id, or the error raised *)
_resolve_hf_model_id(req) ==
    IF req.hf_model_id # ""
    THEN IF req.model_name # "" THEN "InvalidRequest" ELSE req.hf_model_id
    ELSE IF req.model_name = "" THEN "InvalidRequest"
    ELSE get_hf_name(req.model_name)

(* model specs registry: FLUX.1-schnell lists text2img only; a model
   without an entry supports every task *)
supports_task(hf_model_id, task) ==
    IF hf_model_id = "black-forest-labs/FLUX.1-schnell" THEN task \in {"text2img"} ELSE TRUE

(* The checks of create_deployment before its first await, in their order;
   "ok" or the 400 raised. *)
Validate(req) ==
    LET hf_model_id == _resolve_hf_model_id(req)
        private_fields_present == req.user_s3_url \/ req.user_aws_keys
    IN  IF hf_model_id = "InvalidRequest" THEN "InvalidRequest"
        ELSE IF hf_model_id = "UnknownModel" THEN "UnknownModel"
        ELSE IF req.task # "" /\ ~supports_task(hf_model_id, req.task) THEN "UnsupportedTask"
        ELSE IF ~req.runpod_key THEN "MissingRunpodKey"
        ELSE IF req.cache_scope # "private" /\ private_fields_present THEN "PrivateFieldsNeedScope"
        ELSE IF req.cache_scope = "shared" /\ ~req.shared_cache_usable THEN "SharedCacheRefused"
        ELSE IF req.cache_scope = "private" /\ ~(req.user_s3_url /\ req.user_aws_keys)
             THEN "PrivateCacheIncomplete"
        ELSE "ok"

(* get_request_context, by its outcome: UnauthorizedError without a token,
   RateLimitError from _check_rate_limit, else the caller's context *)
get_request_context(req) ==
    IF ~req.token THEN 401 ELSE IF ~req.rate_ok THEN 429 ELSE 200

IdleRequest ==
    [token |-> TRUE, rate_ok |-> TRUE, user |-> "none", hf_model_id |-> "", model_name |-> "",
     task |-> "", runpod_key |-> FALSE, cache_scope |-> "off", user_s3_url |-> FALSE,
     user_aws_keys |-> FALSE, shared_cache_usable |-> FALSE,
     endpoints |-> << >>, list_raises |-> FALSE, pool_is_warm |-> FALSE]

IntakeIdle == [pending |-> FALSE, req |-> IdleRequest, code |-> 0, error |-> "none"]

IntakeVarsUnchanged ==
    UNCHANGED << store, wf, calls, prov, tasks, secrets, del, delResp, resp, clock,
                 enqueued, readyWrites, posts, delivered, cbCount, docMissing,
                 failures, warnLogs, tenant, gpu, rate, sse, intl, cln, repo, est, disp, logsse >>

(* POST /v1/deployments with the request drawn by the initial state: the
   dependency get_request_context, the synchronous checks, warm discovery
   (await list_endpoints, no state touched before it) and then the warm or
   the cold path. *)
create_deployment ==
    /\ intake.pending
    /\ LET req == intake.req
           ctx == get_request_context(req)
           v == Validate(req)
           warm == warm_endpoint(req)
       IN  IF ctx # 200
           THEN /\ intake' = [intake EXCEPT !.pending = FALSE, !.code = ctx,
                                            !.error = IF ctx = 401 THEN "Unauthorized"
                                                      ELSE "RateLimit"]
                /\ IntakeVarsUnchanged
           ELSE IF v # "ok"
           THEN /\ intake' = [intake EXCEPT !.pending = FALSE, !.code = 400, !.error = v]
                /\ IntakeVarsUnchanged
           ELSE IF warm # NoEndpoint /\ warm.url # NoUrl
           THEN \E d \in Ids : CreateWarm(d, req.user, warm.url)
           ELSE \E d \in Ids : CreateCold(d, req.user)

(* requests: every shape of the body without warm endpoints, and a valid
   body against every endpoint list *)
EndpointNames == {user_endpoint_name("userA"), user_endpoint_name("userB"), pool_endpoint_name}

EndpointStatuses == {"RUNNING", "terminated", "STOPPED"}

Endpoints ==
    { ProviderEndpointSummary(n, s, u) : n \in EndpointNames, s \in EndpointStatuses, u \in Urls }

ValidRequest ==
    [IdleRequest EXCEPT !.user = "userA", !.hf_model_id = "black-forest-labs/FLUX.1-schnell",
                        !.task = "text2img",
                        !.runpod_key = TRUE]

BodyRequests ==
    { [ValidRequest EXCEPT !.token = b[1], !.rate_ok = b[2], !.hf_model_id = hf,
                           !.model_name = mn, !.task = t, !.runpod_key = b[3],
                           !.cache_scope = cs, !.user_s3_url = b[4], !.user_aws_keys = b[5],
                           !.shared_cache_usable = b[6]] :
        b \in [1..6 -> BOOLEAN], hf \in {"", "black-forest-labs/FLUX.1-schnell"}, mn \in {"", "flux-schnell", "nope"},
        t \in {"", "text2img", "text2video"}, cs \in {"off", "shared", "private"} }

WarmRequests ==
    { [ValidRequest EXCEPT !.endpoints = eps, !.list_raises = r, !.pool_is_warm = w] :
        eps \in UNION { [1..n -> Endpoints] : n \in 0..MaxEndpoints },
        r \in BOOLEAN, w \in BOOLEAN }

(* ------------------------ internal endpoints --------------------------- *)
NoSecret == ""           \* an absent header or query parameter, an unset setting

SecretValues == {NoSecret, "s3cr3t", "wrong"}

(* the header and the query secret of the requests that are sent: none, the
   right one in either place, a wrong one in either place, a wrong header
   before the right query *)
SecretPairs ==
    {<< NoSecret, NoSecret >>, << "s3cr3t", NoSecret >>, << NoSecret, "s3cr3t" >>,
     << "wrong", NoSecret >>, << NoSecret, "wrong" >>, << "wrong", "s3cr3t" >>}

InternalEndpoints == {"deployment-ready", "logs", "cleanup", "orchestrate-deployment"}

(* `x_visgate_secret or secret` *)
provided_secret(header, query) == IF header # NoSecret THEN header ELSE query

(* variant: a request that supplies no secret passes *)
SecretAccepted_AbsentPasses(configured, provided) ==
    ~(configured # NoSecret /\ provided # NoSecret /\ provided # configured)

(* the guard of deployment_ready, log_tunnel and cleanup_endpoint *)
SecretAccepted(configured, provided) ==
    ~(configured # NoSecret /\ provided # configured)

(* the dependency of the trampoline route: the header only *)
verify_internal_webhook_secret(configured, header) ==
    IF configured = NoSecret THEN TRUE ELSE header = configured

InternalRequest(endpoint, d, header, query, code) ==
    [endpoint |-> endpoint, id |-> d, header |-> header, query |-> query, code |-> code]

IntlIdle == [secret |-> NoSecret,
             last |-> InternalRequest("none", 0, NoSecret, NoSecret, 0),
             ring |-> [d \in Ids |-> 0]]

(* state outside the deployment that the internal handlers leave alone *)
auxButIntl == << failures, warnLogs, tenant, gpu, rate, sse, intake, repo, est, disp, logsse >>

(* HTTPException(403): the request is answered and nothing else happens *)
Rejected(endpoint, d, header, query) ==
    /\ intl' = [intl EXCEPT !.last = InternalRequest(endpoint, d, header, query, 403)]
    /\ UNCHANGED << store, wf, calls, prov, tasks, secrets, del, delResp, resp, clock,
                    enqueued, readyWrites, posts, delivered, cbCount, docMissing, cln >>
    /\ UNCHANGED auxButIntl

(* POST /internal/deployment-ready/{id} with any secret *)
deployment_ready(d, status, url, header, query) ==
    IF ~SecretAccepted(intl.secret, provided_secret(header, query))
    THEN Rejected("deployment-ready", d, header, query)
    ELSE /\ DeploymentReadyBody(d, status, url)
         /\ intl' = [intl EXCEPT !.last =
                        InternalRequest("deployment-ready", d, header, query, 200)]
         /\ UNCHANGED cln
         /\ UNCHANGED auxButIntl

(* POST /internal/logs/{id}: append_live_log to the ring of the deployment *)
log_tunnel(d, header, query) ==
    IF ~SecretAccepted(intl.secret, provided_secret(header, query))
    THEN Rejected("logs", d, header, query)
    ELSE /\ intl.ring[d] < MaxLiveLogs
         /\ intl' = [intl EXCEPT !.last = InternalRequest("logs", d, header, query, 200),
                                 !.ring[d] = @ + 1]
         /\ UNCHANGED << store, wf, calls, prov, tasks, secrets, del, delResp, resp, clock,
                         enqueued, readyWrites, posts, delivered, cbCount, docMissing, cln >>
         /\ UNCHANGED auxButIntl

(* POST /internal/tasks/orchestrate-deployment: the dependency checks the
   header, then orchestrate_deployment runs up to its first await *)
task_orchestrate_deployment(d, header, query) ==
    IF ~verify_internal_webhook_secret(intl.secret, header)
    THEN Rejected("orchestrate-deployment", d, header, query)
    ELSE /\ OrchStartBody(d)
         /\ intl' = [intl EXCEPT !.last =
                        InternalRequest("orchestrate-deployment", d, header, query, 202)]
         /\ UNCHANGED cln
         /\ UNCHANGED auxButIntl

(* ------------------------ worker-initiated cleanup ---------------------- *)
ClnIdle == [pc |-> "idle", status |-> "none", reason |-> "none", called |-> FALSE, n |-> 0]

(* get_secrets: the entry if present and not expired; an expired entry is
   dropped *)
get_secrets(cache, d, expired) == cache[d] /\ ~expired

AfterGetSecrets(cache, d, expired) ==
    IF cache[d] /\ expired THEN [cache EXCEPT ![d] = FALSE] ELSE cache

(* variant: the record is marked deleted before the provider is asked *)
cleanup_endpoint_MarksFirst(d, header, query, expired) ==
    /\ cln[d].pc # "await"
    /\ cln[d].n < MaxCleanups
    /\ IF ~SecretAccepted(intl.secret, provided_secret(header, query))
       THEN Rejected("cleanup", d, header, query)
       ELSE /\ intl' = [intl EXCEPT !.last = InternalRequest("cleanup", d, header, query, 200)]
            /\ LET doc == get_deployment(store, d)
               IN  IF doc = NoDoc \/ doc.runpod_endpoint_id = "none"
                   THEN /\ cln' = [cln EXCEPT ![d] =
                                      [pc |-> "done", status |-> "noop",
                                       reason |-> "missing_endpoint", called |-> FALSE,
                                       n |-> @.n + 1]]
                        /\ UNCHANGED << secrets, store >>
                   ELSE /\ secrets' = AfterGetSecrets(secrets, d, expired)
                        /\ store' = update_deployment(store, d, [status |-> "deleted"])
                        /\ cln' = [cln EXCEPT ![d] =
                                      IF get_secrets(secrets, d, expired)
                                      THEN [pc |-> "await", status |-> "none",
                                            reason |-> "none", called |-> TRUE, n |-> @.n + 1]
                                      ELSE [pc |-> "done", status |-> "noop",
                                            reason |-> "missing_runpod_key", called |-> FALSE,
                                            n |-> @.n + 1]]
            /\ UNCHANGED << wf, calls, prov, tasks, del, delResp, resp, clock,
                            enqueued, readyWrites, posts, delivered, cbCount, docMissing >>
            /\ UNCHANGED auxButIntl

(* POST /internal/cleanup/{id} up to its await of provider.delete_endpoint,
   or to its end when it answers noop. *)
cleanup_endpoint(d, header, query, expired) ==
    /\ cln[d].pc # "await"
    /\ cln[d].n < MaxCleanups
    /\ IF ~SecretAccepted(intl.secret, provided_secret(header, query))
       THEN Rejected("cleanup", d, header, query)
       ELSE /\ intl' = [intl EXCEPT !.last = InternalRequest("cleanup", d, header, query, 200)]
            /\ LET doc == get_deployment(store, d)
               IN  IF doc = NoDoc \/ doc.runpod_endpoint_id = "none"
                   THEN /\ cln' = [cln EXCEPT ![d] =
                                      [pc |-> "done", status |-> "noop",
                                       reason |-> "missing_endpoint", called |-> FALSE,
                                       n |-> @.n + 1]]
                        /\ secrets' = secrets
                   ELSE /\ secrets' = AfterGetSecrets(secrets, d, expired)
                        /\ cln' = [cln EXCEPT ![d] =
                                      IF get_secrets(secrets, d, expired)
                                      THEN [pc |-> "await", status |-> "none",
                                            reason |-> "none", called |-> TRUE, n |-> @.n + 1]
                                      ELSE [pc |-> "done", status |-> "noop",
                                            reason |-> "missing_runpod_key", called |-> FALSE,
                                            n |-> @.n + 1]]
            /\ UNCHANGED << store, wf, calls, prov, tasks, del, delResp, resp, clock,
                            enqueued, readyWrites, posts, delivered, cbCount, docMissing >>
            /\ UNCHANGED auxButIntl

(* provider.delete_endpoint returned (the record is marked deleted) or raised
   (the error is answered, nothing is written). *)
CleanupFinish(d, ok) ==
    /\ cln[d].pc = "await"
    /\ IF ok
       THEN /\ prov' = IF prov[d] = "live" THEN [prov EXCEPT ![d] = "deleted"] ELSE prov
            /\ store' = update_deployment(store, d, [status |-> "deleted"])
            /\ cln' = [cln EXCEPT ![d].pc = "done", ![d].status = "deleted"]
       ELSE /\ cln' = [cln EXCEPT ![d].pc = "done", ![d].status = "error"]
            /\ UNCHANGED << store, prov >>
    /\ UNCHANGED << wf, calls, tasks, secrets, del, delResp, resp, clock,
                    enqueued, readyWrites, posts, delivered, cbCount, docMissing >>
    /\ UNCHANGED << failures, warnLogs, tenant, gpu, rate, sse, intake, intl, repo, est, disp, logsse >>

(* ----------------- the record store under concurrent writers ---------------- *)
(* One deployment document with its logs array, in the Firestore repository
   or in the in-memory one. Each call of append_log and update_deployment is
   one write of the document (a single ref.update with an ArrayUnion
   transform, or synchronous dictionary code), so concurrent callers are any
   sequence of calls. *)
LogLevels == {"INFO", "WARNING"}

(* LogEntry(timestamp, level, message).to_dict() *)
LogEntry(timestamp, level, message) ==
    [timestamp |-> timestamp, level |-> level, message |-> message]

(* variant: the logs field is overwritten with the new entry *)
ArrayUnion_Overwrites(arr, entry) == << entry >>

(* firestore.ArrayUnion([entry]): the element is added at the end unless the
   array already holds an equal one *)
ArrayUnion(arr, entry) ==
    IF \E i \in DOMAIN arr : arr[i] = entry THEN arr ELSE Append(arr, entry)

(* append_log of firestore_repo and of memory_repo *)
append_log(kind, doc, entry) ==
    IF kind = "firestore"
    THEN [doc EXCEPT !.logs = ArrayUnion(@, entry)]
    ELSE [doc EXCEPT !.logs = Append(@, entry)]

RepoDoc == [status |-> "validating", error |-> "none", logs |-> << >>]

RepoIdle == [kind |-> "firestore", doc |-> RepoDoc, now |-> 0, n |-> 0,
             appended |-> {}, written |-> << >>, seen |-> << >>]

(* a caller appends a log line stamped with the current time *)
RepoAppend(level, message) ==
    /\ repo.n < MaxRepoOps
    /\ LET entry == LogEntry(repo.now, level, message)
       IN  repo' = [repo EXCEPT !.doc = append_log(repo.kind, @, entry),
                                !.appended = @ \cup {entry},
                                !.n = @ + 1]
    /\ UNCHANGED << store, wf, calls, prov, tasks, secrets, del, delResp, resp, clock,
                    enqueued, readyWrites, posts, delivered, cbCount, docMissing >>
    /\ UNCHANGED << failures, warnLogs, tenant, gpu, rate, sse, intake, intl, cln,
                    est, disp, logsse >>

(* a caller merges one field into the document *)
RepoUpdate(field, value) ==
    /\ repo.n < MaxRepoOps
    /\ repo' = [repo EXCEPT !.doc = Merge(@, field :> value),
                            !.written = (field :> value) @@ @,
                            !.n = @ + 1]
    /\ UNCHANGED << store, wf, calls, prov, tasks, secrets, del, delResp, resp, clock,
                    enqueued, readyWrites, posts, delivered, cbCount, docMissing >>
    /\ UNCHANGED << failures, warnLogs, tenant, gpu, rate, sse, intake, intl, cln,
                    est, disp, logsse >>

(* a reader loads the document and keeps the log list it saw *)
RepoRead ==
    /\ repo.seen # repo.doc.logs
    /\ repo' = [repo EXCEPT !.seen = repo.doc.logs]
    /\ UNCHANGED << store, wf, calls, prov, tasks, secrets, del, delResp, resp, clock,
                    enqueued, readyWrites, posts, delivered, cbCount, docMissing >>
    /\ UNCHANGED << failures, warnLogs, tenant, gpu, rate, sse, intake, intl, cln,
                    est, disp, logsse >>

(* datetime.now(UTC) moves on *)
RepoTick ==
    /\ repo.now < MaxStamp
    /\ repo' = [repo EXCEPT !.now = @ + 1]
    /\ UNCHANGED << store, wf, calls, prov, tasks, secrets, del, delResp, resp, clock,
                    enqueued, readyWrites, posts, delivered, cbCount, docMissing >>
    /\ UNCHANGED << failures, warnLogs, tenant, gpu, rate, sse, intake, intl, cln,
                    est, disp, logsse >>

(* --------------------------- VRAM estimation ---------------------------- *)
NoneInt == -1            \* an argument left at None

(* entries of MODEL_SPECS_REGISTRY: model id -> gpu_memory_gb *)
MODEL_SPECS_REGISTRY ==
    [ m \in {"black-forest-labs/FLUX.1-schnell", "black-forest-labs/FLUX.1-dev",
             "stabilityai/sd-turbo", "runwayml/stable-diffusion-v1-5",
             "stabilityai/stable-diffusion-3-medium-diffusers"} |->
        CASE m = "black-forest-labs/FLUX.1-schnell" -> 16
          [] m = "black-forest-labs/FLUX.1-dev" -> 28
          [] m = "stabilityai/sd-turbo" -> 8
          [] m = "runwayml/stable-diffusion-v1-5" -> 6
          [] m = "stabilityai/stable-diffusion-3-medium-diffusers" -> 18 ]

_GPU_TIERS == << 6, 8, 10, 12, 16, 24, 28, 40, 48, 80 >>

(* weight bytes are counted in units of 2^26 bytes, 16 to the GiB *)
UnitsPerGiB == 16

(* math.ceil(weight_bytes / 1024^3 * 1.35), 1.35 being 27/20 *)
CeilScaledGb(weight_units) ==
    (27 * weight_units + (20 * UnitsPerGiB - 1)) \div (20 * UnitsPerGiB)

RECURSIVE FirstTier(_, _)
FirstTier(tiers, gb) ==
    IF tiers = << >> THEN _GPU_TIERS[Len(_GPU_TIERS)]
    ELSE IF Head(tiers) >= gb THEN Head(tiers)
    ELSE FirstTier(Tail(tiers), gb)

(* the first tier that is >= ceil(vram_gb), the last tier when there is none *)
_snap_to_gpu_tier(ceil_gb) == FirstTier(_GPU_TIERS, ceil_gb)

_estimate_vram_from_weight_bytes(weight_units) ==
    _snap_to_gpu_tier(CeilScaledGb(weight_units))

_PARAM_TO_VRAM ==
    << << 500, 6 >>, << 1000, 8 >>, << 3000, 12 >>, << 7000, 16 >>,
       << 13000, 24 >>, << 30000, 40 >>, << 70000, 80 >> >>

RECURSIVE FirstThreshold(_, _)
FirstThreshold(table, params_millions) ==
    IF table = << >> THEN 80
    ELSE IF params_millions <= Head(table)[1] THEN Head(table)[2]
    ELSE FirstThreshold(Tail(table), params_millions)

_estimate_vram_from_params(params_millions) == FirstThreshold(_PARAM_TO_VRAM, params_millions)

(* variant: the byte estimate is consulted before the registry *)
get_min_gpu_memory_gb_BytesFirst(model_id, hf_params_millions, hf_weight_units) ==
    IF hf_weight_units # NoneInt /\ hf_weight_units > 0
    THEN _estimate_vram_from_weight_bytes(hf_weight_units)
    ELSE IF model_id \in DOMAIN MODEL_SPECS_REGISTRY THEN MODEL_SPECS_REGISTRY[model_id]
    ELSE IF hf_params_millions # NoneInt THEN _estimate_vram_from_params(hf_params_millions)
    ELSE 16

get_min_gpu_memory_gb(model_id, hf_params_millions, hf_weight_units) ==
    IF model_id \in DOMAIN MODEL_SPECS_REGISTRY THEN MODEL_SPECS_REGISTRY[model_id]
    ELSE IF hf_weight_units # NoneInt /\ hf_weight_units > 0
    THEN _estimate_vram_from_weight_bytes(hf_weight_units)
    ELSE IF hf_params_millions # NoneInt THEN _estimate_vram_from_params(hf_params_millions)
    ELSE 16

EstIdle == [done |-> FALSE, model_id |-> "none", params |-> NoneInt, weight |-> NoneInt,
            result |-> 0, byte_estimate |-> 0]

(* one call of get_min_gpu_memory_gb, and of the byte estimator on the same
   weight when there is one *)
EstimateVram ==
    /\ ~est.done
    /\ est' = [est EXCEPT !.done = TRUE,
                          !.result = get_min_gpu_memory_gb(est.model_id, est.params, est.weight),
                          !.byte_estimate =
                              IF est.weight > 0
                              THEN _estimate_vram_from_weight_bytes(est.weight) ELSE 0]
    /\ UNCHANGED << store, wf, calls, prov, tasks, secrets, del, delResp, resp, clock,
                    enqueued, readyWrites, posts, delivered, cbCount, docMissing >>
    /\ UNCHANGED << failures, warnLogs, tenant, gpu, rate, sse, intake, intl, cln,
                    repo, disp, logsse >>

(* ------------------- dispatch of the orchestration task ----------------- *)
NoneStr == "None"
Absent == "absent"

(* Python truthiness of an optional string *)
Truthy(x) == x \notin {NoneStr, ""}

(* a or b *)
PyOr(a, b) == IF Truthy(a) THEN a ELSE b

(* the secrets create_deployment hands to store_secrets and to
   enqueue_orchestration_task: cache_scope off, shared or private *)
CreateSecrets ==
    { [runpod_api_key |-> "rk", hf_token |-> h, aws_access_key_id |-> k[1],
       aws_secret_access_key |-> k[2], aws_endpoint_url |-> k[3], s3_model_url |-> k[4]] :
        h \in {NoneStr, "hf"},
        k \in { << NoneStr, NoneStr, NoneStr, NoneStr >>,
                << NoneStr, NoneStr, NoneStr, "s3://svc/model" >>,
                << "user-ak", "user-sk", NoneStr, "s3://user/u/model" >>,
                << "user-ak", "user-sk", "user-eu", "s3://user/u/model" >> } }

(* the service's own settings: queue configuration and AWS defaults *)
DispatchSettings ==
    [stateless_mode : BOOLEAN, cloud_tasks_queue_path : {"", "queue"},
     internal_webhook_base_url : {"", "base"},
     aws_access_key_id : {"", "svc-ak"}, aws_secret_access_key : {"", "svc-sk"},
     aws_endpoint_url : {"", "svc-eu"}, s3_model_url : {"", "s3://svc"}]

(* enqueue_orchestration_task hands the task to the queue unless stateless
   mode is on, the queue path or the base URL is missing, or create_task raised *)
UsesQueue(s, raised) ==
    /\ ~(s.stateless_mode \/ s.cloud_tasks_queue_path = "")
    /\ s.internal_webhook_base_url # ""
    /\ ~raised

(* asyncio.create_task(orchestrate_deployment(...)): all seven arguments *)
InProcessArgs(req) == req

(* the trampoline parses the payload as OrchestrateDeploymentRequest and calls
   orchestrate_deployment(deployment_id, runpod_api_key, hf_token) *)
TrampolineArgs(req) ==
    [req EXCEPT !.aws_access_key_id = NoneStr, !.aws_secret_access_key = NoneStr,
                !.aws_endpoint_url = NoneStr, !.s3_model_url = NoneStr]

(* orchestrate_deployment: the cached secrets are read only when no provider
   key was passed, and then fill the arguments that are None *)
WorkflowInputs(args, cached) ==
    LET useCache == ~Truthy(args.runpod_api_key) /\ cached # NoneStr
        fill(f) == IF useCache /\ args[f] = NoneStr THEN cached[f] ELSE args[f]
    IN  [runpod_api_key |-> IF Truthy(args.runpod_api_key) THEN args.runpod_api_key
                            ELSE IF cached # NoneStr THEN cached.runpod_api_key
                            ELSE NoneStr,
         hf_token |-> PyOr(args.hf_token, IF useCache THEN cached.hf_token ELSE NoneStr),
         aws_access_key_id |-> fill("aws_access_key_id"),
         aws_secret_access_key |-> fill("aws_secret_access_key"),
         aws_endpoint_url |-> fill("aws_endpoint_url"),
         s3_model_url |-> fill("s3_model_url")]

EnvValue(x) == IF Truthy(x) THEN x ELSE Absent

(* the worker environment built for provider.create_endpoint, with the
   provider key the create call is made with *)
WorkerEnv(inp, s) ==
    [api_key |-> inp.runpod_api_key,
     HF_TOKEN |-> EnvValue(inp.hf_token),
     AWS_ACCESS_KEY_ID |-> EnvValue(PyOr(inp.aws_access_key_id, s.aws_access_key_id)),
     AWS_SECRET_ACCESS_KEY |-> EnvValue(PyOr(inp.aws_secret_access_key, s.aws_secret_access_key)),
     AWS_ENDPOINT_URL |-> EnvValue(PyOr(inp.aws_endpoint_url, s.aws_endpoint_url)),
     S3_MODEL_URL |-> EnvValue(PyOr(inp.s3_model_url, s.s3_model_url))]

DispIdle == [pc |-> "idle", mode |-> "none", req |-> NoneStr, settings |-> NoneStr,
             args |-> NoneStr, cached |-> NoneStr, env |-> NoneStr]

DispUnchanged ==
    /\ UNCHANGED << store, wf, calls, prov, tasks, secrets, del, delResp, resp, clock,
                    enqueued, readyWrites, posts, delivered, cbCount, docMissing >>
    /\ UNCHANGED << failures, warnLogs, tenant, gpu, rate, sse, intake, intl, cln,
                    repo, est, logsse >>

(* create_deployment, cold path: store_secrets, then enqueue_orchestration_task *)
EnqueueTask(req, s, raised) ==
    /\ disp.pc = "idle"
    /\ disp' = [disp EXCEPT !.pc = "dispatched", !.req = req, !.settings = s,
                            !.cached = req,
                            !.mode = IF UsesQueue(s, raised) THEN "queue" ELSE "in-process",
                            !.args = IF UsesQueue(s, raised) THEN TrampolineArgs(req)
                                     ELSE InProcessArgs(req)]
    /\ DispUnchanged

(* the workflow runs up to provider.create_endpoint; the cache entry may have
   expired or live in another replica *)
WorkflowBuildsEnv(cacheHit) ==
    /\ disp.pc = "dispatched"
    /\ disp' = [disp EXCEPT !.pc = "built",
                            !.env = WorkerEnv(WorkflowInputs(disp.args,
                                                  IF cacheHit THEN disp.cached ELSE NoneStr),
                                              disp.settings)]
    /\ DispUnchanged

(* --------------------------- the live log stream ------------------------ *)
(* LiveLogEntry; id tells apart the lines the worker sent *)
LiveLogEntry(ts, id) == [timestamp |-> ts, id |-> id]

(* deque(maxlen=max_entries).append: the oldest entry leaves a full ring *)
RingAppend(buf, entry) ==
    IF Len(buf) >= LogStreamMaxEntries THEN Append(Tail(buf), entry) ELSE Append(buf, entry)

(* while buf and (now - buf[0].timestamp) > ttl: buf.popleft() *)
RECURSIVE PopExpired(_, _)
PopExpired(buf, now) ==
    IF buf # << >> /\ (now - Head(buf).timestamp) > LogStreamTtl
    THEN PopExpired(Tail(buf), now)
    ELSE buf

(* get_live_logs_since: the entries left after pruning whose timestamp is
   later than since_ts *)
get_live_logs_since(buf, since_ts, now) ==
    SelectSeq(PopExpired(buf, now), LAMBDA en : en.timestamp > since_ts)

RECURSIVE MaxTimestamp(_, _)
MaxTimestamp(last_ts, entries) ==
    IF entries = << >> THEN last_ts
    ELSE MaxTimestamp(IF Head(entries).timestamp > last_ts THEN Head(entries).timestamp
                      ELSE last_ts, Tail(entries))

(* one subscriber of the stream, connected from the start; polled: no line
   was appended since the subscriber's last poll *)
LogsseIdle == [now |-> 1, buf |-> << >>, appended |-> 0, last_ts |-> 0,
               emitted |-> << >>, polled |-> FALSE]

LogsseUnchanged ==
    /\ UNCHANGED << store, wf, calls, prov, tasks, secrets, del, delResp, resp, clock,
                    enqueued, readyWrites, posts, delivered, cbCount, docMissing >>
    /\ UNCHANGED << failures, warnLogs, tenant, gpu, rate, sse, intake, intl, cln,
                    repo, est, disp >>

(* append_live_log: the entry is stamped with time.time() *)
append_live_log ==
    /\ logsse.appended < MaxLogAppends
    /\ logsse' = [logsse EXCEPT
                    !.buf = RingAppend(@, LiveLogEntry(logsse.now, logsse.appended + 1)),
                    !.appended = @ + 1,
                    !.polled = FALSE]
    /\ LogsseUnchanged

(* one iteration of event_generator in stream_deployment_logs: every entry
   returned is yielded and last_ts becomes the largest timestamp seen *)
LogStreamPoll ==
    /\ ~logsse.polled
    /\ LET entries == get_live_logs_since(logsse.buf, logsse.last_ts, logsse.now)
       IN  logsse' = [logsse EXCEPT
                        !.buf = PopExpired(@, logsse.now),
                        !.emitted = @ \o entries,
                        !.last_ts = MaxTimestamp(@, entries),
                        !.polled = TRUE]
    /\ LogsseUnchanged

(* time.time() advances *)
LogClockTick ==
    /\ logsse.now < MaxLogTime
    /\ logsse' = [logsse EXCEPT !.now = @ + 1]
    /\ LogsseUnchanged

(* no write to the lone document, no estimate, no dispatch, no log stream *)
LabIdle ==
    /\ repo = RepoIdle
    /\ est = EstIdle
    /\ disp = DispIdle
    /\ logsse = LogsseIdle

(* no tenant request answered, no selection made, empty buckets, no stream,
   no create request under way, no internal request answered *)
SideInit ==
    /\ tenant = TenantIdle
    /\ gpu = GpuIdle
    /\ rate = RateIdle
    /\ sse = SseIdle
    /\ intake = IntakeIdle
    /\ intl = IntlIdle
    /\ cln = [d \in Ids |-> ClnIdle]
    /\ LabIdle

CoreInit ==
    /\ store = [d \in Ids |-> NoDoc]
    /\ wf = [d \in Ids |-> IdleWf]
    /\ calls = [d \in Ids |-> [c \in Callers |-> IdleCall]]
    /\ prov = [d \in Ids |-> "none"]
    /\ tasks = [d \in Ids |-> 0]
    /\ secrets = [d \in Ids |-> FALSE]
    /\ del = [d \in Ids |-> "idle"]
    /\ delResp = [d \in Ids |-> << >>]
    /\ resp = [d \in Ids |-> "none"]
    /\ clock = 0
    /\ enqueued = [d \in Ids |-> 0]
    /\ readyWrites = [d \in Ids |-> 0]
    /\ posts = [d \in Ids |-> 0]
    /\ delivered = [d \in Ids |-> 0]
    /\ cbCount = [d \in Ids |-> 0]
    /\ docMissing = [d \in Ids |-> FALSE]
    /\ failures = 0
    /\ warnLogs = [d \in Ids |-> 0]

Init == CoreInit /\ SideInit

Next ==
    \/ \E d \in Ids, u \in Creators, url \in Urls : CreateWarm(d, u, url)
    \/ \E d \in Ids, u \in Creators : CreateCold(d, u)
    \/ \E d \in Ids, c \in Callers, code \in WebhookAnswers : NotifyAttempt(d, c, code)
    \/ \E d \in Ids : OrchStart(d)
    \/ \E d \in Ids, n \in 0..MaxCandidates : OrchValidated(d, n)
    \/ \E d \in Ids : HfRetry(d)
    \/ \E d \in Ids, e \in HfErrorsFollowed : OrchValidateFailed(d, e)
    \/ \E d \in Ids : ProviderCreateOk(d)
    \/ \E d \in Ids, e \in ProviderErrorsFollowed : ProviderCreateCapacity(d, e)
    \/ \E d \in Ids, e \in ProviderErrorsFollowed : ProviderCreateFatal(d, e)
    \/ \E d \in Ids : OrchEndpointCreated(d)
    \/ \E d \in Ids : OrchProbeReady(d)
    \/ \E d \in Ids, err \in BOOLEAN : OrchProbeNotReady(d, err)
    \/ \E d \in Ids, t \in BOOLEAN : OrchMonitorTick(d, t)
    \/ \E d \in Ids, st \in WorkerStatuses, url \in Urls : WorkerCallback(d, st, url)
    \/ \E d \in Ids, u \in Users : DeleteRequest(d, u)
    \/ \E d \in Ids, ok \in BOOLEAN : DeleteFinish(d, ok)

Spec == Init /\ [][Next]_vars

(* ---------- the race of a worker ready callback with the probe ---------- *)
(* The workflow has created the endpoint, written loading_model and waits for
   its readiness probe; the worker reports its phases and ready. No failure
   is reported, no delete is requested. *)
StartCore(doc, w, p) ==
    /\ store = [d \in Ids |-> IF d = 1 THEN doc ELSE NoDoc]
    /\ wf = [d \in Ids |-> IF d = 1 THEN w ELSE IdleWf]
    /\ calls = [d \in Ids |-> [c \in Callers |-> IdleCall]]
    /\ prov = [d \in Ids |-> IF d = 1 THEN p ELSE "none"]
    /\ tasks = [d \in Ids |-> 0]
    /\ secrets = [d \in Ids |-> d = 1]
    /\ del = [d \in Ids |-> "idle"]
    /\ delResp = [d \in Ids |-> << >>]
    /\ resp = [d \in Ids |-> IF d = 1 THEN "accepted_cold" ELSE "none"]
    /\ enqueued = [d \in Ids |-> IF d = 1 THEN 1 ELSE 0]
    /\ readyWrites = [d \in Ids |-> 0]
    /\ posts = [d \in Ids |-> 0]
    /\ delivered = [d \in Ids |-> 0]
    /\ cbCount = [d \in Ids |-> 0]
    /\ docMissing = [d \in Ids |-> FALSE]
    /\ failures = 0
    /\ warnLogs = [d \in Ids |-> 0]

StartState(doc, w, p) == StartCore(doc, w, p) /\ SideInit

(* the log the workflow has written when candidate k of n is being created:
   one WARNING for each candidate before it *)
RECURSIVE CapacityWarnings(_)
CapacityWarnings(k) ==
    IF k = 0 THEN << >>
    ELSE Append(CapacityWarnings(k - 1), << "WARNING", "GPU candidate unavailable", k >>)

LogAtCreate(k, n) ==
    << << "INFO", "Validating Hugging Face model", 0 >>,
       << "INFO", "HF model validated", 0 >>,
       << "INFO", "Selected GPU candidates", n >> >> \o CapacityWarnings(k - 1)

LogAfterCreate(k, n) ==
    LogAtCreate(k, n) \o
    << << "INFO", "Runpod endpoint created", 0 >>,
       << "INFO", "Waiting for model load signal from worker", 0 >> >>

(* the workflow after provider.create_endpoint succeeded for candidate k of n *)
WfAfterCreate(pc, k, n) ==
    [pc |-> pc, cand |-> k, ncand |-> n, probes |-> 0, hf |-> 0, creates |-> k,
     last_error |-> "none",
     log |-> IF pc = "create_returned" THEN LogAtCreate(k, n) ELSE LogAfterCreate(k, n),
     raised |-> FALSE, timed_out |-> FALSE]

(* the workflow after its monitor gave up (timedOut) or saw a terminal status *)
WfMonitorEnded(k, n, timedOut) ==
    IF timedOut
    THEN [log_step(WfAfterCreate("done", k, n), "WARNING",
                   "Readiness monitor timed out; waiting for worker webhook", 0)
             EXCEPT !.timed_out = TRUE, !.probes = 1]
    ELSE WfAfterCreate("done", k, n)

LoadingDoc(k) ==
    [ status |-> "loading_model", ready_at |-> 0, endpoint_url |-> RunUrl,
      runpod_endpoint_id |-> "ep", gpu_allocated |-> Display(k), error |-> "none",
      user_hash |-> "userA" ]

RaceInit ==
    /\ clock = 0
    /\ \E n \in 1..MaxCandidates : \E k \in 1..n :
           StartState(LoadingDoc(k), WfAfterCreate("probe", k, n), "live")

RaceNext ==
    \/ \E d \in Ids, st \in WorkerStatuses \ {"failed"}, url \in Urls : WorkerCallback(d, st, url)
    \/ \E d \in Ids : OrchProbeReady(d)
    \/ \E d \in Ids, err \in BOOLEAN : OrchProbeNotReady(d, err)
    \/ \E d \in Ids, t \in BOOLEAN : OrchMonitorTick(d, t)
    \/ \E d \in Ids, c \in Callers, code \in WebhookAnswers : NotifyAttempt(d, c, code)

SpecRace == RaceInit /\ [][RaceNext]_vars

(* ------- mark_deployment_ready_and_notify invoked twice in sequence ------ *)
(* An existing record in any state the workflow, the worker callbacks and
   delete leave behind; the worker's ready callback is handled, and then
   handled again once the first handler has returned. *)
SeqStatuses ==
    {"creating_endpoint", "loading_model", "downloading_model", "ready", "failed", "deleted"}

SeqDoc(st, r, k) ==
    [ status |-> st, ready_at |-> r,
      endpoint_url |-> IF st = "creating_endpoint" THEN NoUrl ELSE RunUrl,
      runpod_endpoint_id |-> IF st = "creating_endpoint" THEN "none" ELSE "ep",
      gpu_allocated |-> IF st = "creating_endpoint" THEN 0 ELSE Display(k),
      error |-> IF st = "failed" THEN "Worker reported failure" ELSE "none",
      user_hash |-> "userA" ]

SeqInit ==
    /\ clock = 1
    /\ \E st \in SeqStatuses, r \in {0, 1}, p \in {"live", "deleted"} :
       \E n \in 1..MaxCandidates : \E k \in 1..n :
           /\ st = "ready" => r # 0
           /\ st = "creating_endpoint" => r = 0 /\ p = "live"
           /\ StartState(SeqDoc(st, r, k),
                         IF st = "creating_endpoint" THEN WfAfterCreate("create_returned", k, n)
                         ELSE WfMonitorEnded(k, n, st \in {"loading_model", "downloading_model"}),
                         p)

SeqNext ==
    \/ \E d \in Ids, url \in Urls : WorkerCallback(d, "ready", url)
    \/ \E d \in Ids, c \in Callers, code \in WebhookAnswers : NotifyAttempt(d, c, code)

SpecSeq == SeqInit /\ [][SeqNext]_vars

(* ------------- notify() under every answer of the user webhook --------- *)
(* The records of SeqInit; the worker's ready callback is handled and the
   webhook answers each POST with any status code, or the POST raises. *)
NotifyNext ==
    \/ \E d \in Ids, url \in Urls : WorkerCallback(d, "ready", url)
    \/ \E d \in Ids, c \in Callers, code \in AllAnswers : NotifyAttempt(d, c, code)

SpecNotify == SeqInit /\ [][NotifyNext]_vars

(* --------------- requests of the owner and of another tenant ------------ *)
(* The records of SeqInit and an id without a record; both tenants read,
   stream and delete. *)
TenantNext ==
    \/ \E d \in Ids, u \in Users : GetStatus(d, u)
    \/ \E d \in Ids, u \in Users : LogStreamOpen(d, u)
    \/ \E d \in Ids, u \in Users : StreamOpen(d, u)
    \/ StreamPoll
    \/ StreamDisconnect
    \/ \E d \in Ids, u \in Users : DeleteMissing(d, u)
    \/ \E d \in Ids, u \in Users : DeleteRequest(d, u)
    \/ \E d \in Ids, ok \in BOOLEAN : DeleteFinish(d, ok)

SpecTenant == SeqInit /\ [][TenantNext]_vars

(* ------------------- the GPU selector on drawn inputs ------------------- *)
GpuInit ==
    /\ CoreInit
    /\ tenant = TenantIdle /\ rate = RateIdle /\ sse = SseIdle
    /\ intake = IntakeIdle /\ intl = IntlIdle /\ cln = [d \in Ids |-> ClnIdle]
    /\ LabIdle
    /\ \E v \in PoolVramNeeds, t \in TierNames, reg \in Registries, m \in TierMappings :
           gpu = [GpuIdle EXCEPT !.vram_gb = v, !.gpu_tier = t,
                                 !.registry = reg, !.tier_mapping = m]

GpuNext == SelectGpu

SpecGpu == GpuInit /\ [][GpuNext]_vars

(* ------------------- requests against the rate limiter ------------------ *)
RateNext ==
    \/ \E u \in RateUsers, ip \in ClientIps : RateRequest(u, ip)
    \/ RateTick

SpecRate == Init /\ [][RateNext]_vars

(* -------- the status stream of a deployment whose status changes -------- *)
(* The deployment of RaceInit (loading_model, the workflow probing); the
   worker reports any phase, the probe may succeed, the webhook answers 200,
   the owner may delete, and a client opens the status stream at any moment. The generator's loop runs again after each
   2-second sleep, which is the fairness of StreamPoll. *)
StreamNext ==
    \/ \E d \in Ids, st \in WorkerStatuses : WorkerCallback(d, st, NoUrl)
    \/ \E d \in Ids : OrchProbeReady(d)
    \/ \E d \in Ids, c \in Callers : NotifyAttempt(d, c, 200)
    \/ \E d \in Ids, u \in Creators : DeleteRequest(d, u)
    \/ \E d \in Ids, ok \in BOOLEAN : DeleteFinish(d, ok)
    \/ \E d \in Ids, u \in Users : StreamOpen(d, u)
    \/ StreamPoll
    \/ StreamDisconnect

SpecStream == RaceInit /\ [][StreamNext]_vars /\ WF_vars(StreamPoll)

(* ------------------- one create request, any inputs --------------------- *)
(* An empty store; one POST /v1/deployments with any body, caller context and
   provider endpoint list; the webhook of the warm path is answered, the
   task of the cold path starts. *)
CreateInit ==
    /\ CoreInit
    /\ tenant = TenantIdle /\ gpu = GpuIdle /\ rate = RateIdle /\ sse = SseIdle
    /\ intl = IntlIdle /\ cln = [d \in Ids |-> ClnIdle]
    /\ LabIdle
    /\ \E req \in BodyRequests \cup WarmRequests :
           intake = [IntakeIdle EXCEPT !.pending = TRUE, !.req = req]

CreateNext ==
    \/ create_deployment
    \/ \E d \in Ids, c \in Callers, code \in WebhookAnswers : NotifyAttempt(d, c, code)
    \/ \E d \in Ids : OrchStart(d)

SpecCreate == CreateInit /\ [][CreateNext]_vars

(* --------------- requests to the internal endpoints --------------------- *)
(* The records of SeqInit, or a record just created on the cold path with its
   task waiting; the internal secret is configured or not; the four internal
   endpoints are called with any header and query secret; the owner may
   delete. *)
ColdCreated ==
    /\ store = [d \in Ids |-> IF d = 1 THEN NewDoc("validating", "userA", NoUrl, "none")
                                ELSE NoDoc]
    /\ wf = [d \in Ids |-> IdleWf]
    /\ calls = [d \in Ids |-> [c \in Callers |-> IdleCall]]
    /\ prov = [d \in Ids |-> "none"]
    /\ tasks = [d \in Ids |-> IF d = 1 THEN 1 ELSE 0]
    /\ secrets = [d \in Ids |-> d = 1]
    /\ del = [d \in Ids |-> "idle"]
    /\ delResp = [d \in Ids |-> << >>]
    /\ resp = [d \in Ids |-> IF d = 1 THEN "accepted_cold" ELSE "none"]
    /\ enqueued = [d \in Ids |-> IF d = 1 THEN 1 ELSE 0]
    /\ readyWrites = [d \in Ids |-> 0]
    /\ posts = [d \in Ids |-> 0]
    /\ delivered = [d \in Ids |-> 0]
    /\ cbCount = [d \in Ids |-> 0]
    /\ docMissing = [d \in Ids |-> FALSE]
    /\ failures = 0
    /\ warnLogs = [d \in Ids |-> 0]

InternalInit ==
    /\ clock = 1
    /\ tenant = TenantIdle /\ gpu = GpuIdle /\ rate = RateIdle /\ sse = SseIdle
    /\ intake = IntakeIdle /\ cln = [d \in Ids |-> ClnIdle]
    /\ LabIdle
    /\ \E configured \in {NoSecret, "s3cr3t"} : intl = [IntlIdle EXCEPT !.secret = configured]
    /\ \/ ColdCreated
       \/ \E st \in {"creating_endpoint", "loading_model", "ready"}, r \in {0, 1} ,
                 p \in {"live"}:
              /\ st = "ready" => r # 0
              /\ st = "creating_endpoint" => r = 0
              /\ StartCore(SeqDoc(st, r, 1),
                           IF st = "creating_endpoint" THEN WfAfterCreate("create_returned", 1, 1)
                           ELSE WfMonitorEnded(1, 1, st \in {"loading_model", "downloading_model"}),
                           p)

InternalNext ==
    \/ \E d \in Ids, st \in {"loading_model", "ready"}, s \in SecretPairs :
           deployment_ready(d, st, NoUrl, s[1], s[2])
    \/ \E d \in Ids, s \in SecretPairs : log_tunnel(d, s[1], s[2])
    \/ \E d \in Ids, s \in SecretPairs, x \in BOOLEAN :
           cleanup_endpoint(d, s[1], s[2], x)
    \/ \E d \in Ids, ok \in BOOLEAN : CleanupFinish(d, ok)
    \/ \E d \in Ids, s \in SecretPairs : task_orchestrate_deployment(d, s[1], s[2])
    \/ \E d \in Ids, c \in Callers : NotifyAttempt(d, c, 200)

SpecInternal == InternalInit /\ [][InternalNext]_vars

(* --------------- one run of the orchestration workflow ------------------ *)
(* A record just created on the cold path with its task waiting. The model
   lookup and the provider raise every error of HfErrors and ProviderErrors,
   the selector returns up to MaxRotation candidates, the monitor may time
   out, the worker reports, the owner deletes. *)
OrchInit ==
    /\ clock = 1
    /\ ColdCreated
    /\ SideInit

OrchNext ==
    \/ \E d \in Ids : OrchStart(d)
    \/ \E d \in Ids, n \in 0..MaxRotation : OrchValidated(d, n)
    \/ \E d \in Ids : HfRetry(d)
    \/ \E d \in Ids, e \in HfErrors : OrchValidateFailed(d, e)
    \/ \E d \in Ids : ProviderCreateOk(d)
    \/ \E d \in Ids, e \in ProviderErrors : ProviderCreateCapacity(d, e)
    \/ \E d \in Ids, e \in ProviderErrors : ProviderCreateFatal(d, e)
    \/ \E d \in Ids : OrchEndpointCreated(d)
    \/ \E d \in Ids : OrchProbeReady(d)
    \/ \E d \in Ids, err \in BOOLEAN : OrchProbeNotReady(d, err)
    \/ \E d \in Ids, t \in BOOLEAN : OrchMonitorTick(d, t)
    \/ \E d \in Ids, st \in WorkerStatuses : WorkerCallback(d, st, NoUrl)
    \/ \E d \in Ids, c \in Callers : NotifyAttempt(d, c, 200)
    \/ \E d \in Ids : DeleteRequest(d, "userA")
    \/ \E d \in Ids, ok \in BOOLEAN : DeleteFinish(d, ok)

SpecOrch == OrchInit /\ [][OrchNext]_vars

(* ----------------- writers of one document, both repositories ---------- *)
RepoInit ==
    /\ CoreInit
    /\ tenant = TenantIdle /\ gpu = GpuIdle /\ rate = RateIdle /\ sse = SseIdle
    /\ intake = IntakeIdle /\ intl = IntlIdle /\ cln = [d \in Ids |-> ClnIdle]
    /\ est = EstIdle /\ disp = DispIdle /\ logsse = LogsseIdle
    /\ \E kind \in {"firestore", "memory"} : repo = [RepoIdle EXCEPT !.kind = kind]

RepoNext ==
    \/ \E level \in LogLevels : RepoAppend(level, "line")
    \/ \E value \in {"creating_endpoint", "ready"} : RepoUpdate("status", value)
    \/ RepoUpdate("error", "User webhook delivery failed after retries")
    \/ RepoRead
    \/ RepoTick

SpecRepo == RepoInit /\ [][RepoNext]_vars

(* -------------------- the VRAM estimate on drawn inputs ----------------- *)
EstModels == DOMAIN MODEL_SPECS_REGISTRY \cup {"unknown/new-model"}

EstParams == {NoneInt, 0, 500, 501, 7000, 70000, 70001}

EstInit ==
    /\ CoreInit
    /\ tenant = TenantIdle /\ gpu = GpuIdle /\ rate = RateIdle /\ sse = SseIdle
    /\ intake = IntakeIdle /\ intl = IntlIdle /\ cln = [d \in Ids |-> ClnIdle]
    /\ repo = RepoIdle /\ disp = DispIdle /\ logsse = LogsseIdle
    /\ \E m \in EstModels, p \in EstParams, w \in {NoneInt} \cup 0..MaxWeightUnits :
           est = [EstIdle EXCEPT !.model_id = m, !.params = p, !.weight = w]

EstNext == EstimateVram

SpecEst == EstInit /\ [][EstNext]_vars

(* ----------------------- the two ways to start the workflow ------------- *)
DispatchInit ==
    /\ CoreInit
    /\ tenant = TenantIdle /\ gpu = GpuIdle /\ rate = RateIdle /\ sse = SseIdle
    /\ intake = IntakeIdle /\ intl = IntlIdle /\ cln = [d \in Ids |-> ClnIdle]
    /\ repo = RepoIdle /\ est = EstIdle /\ disp = DispIdle /\ logsse = LogsseIdle

DispatchNext ==
    \/ \E req \in CreateSecrets, s \in DispatchSettings, raised \in BOOLEAN :
           EnqueueTask(req, s, raised)
    \/ \E cacheHit \in BOOLEAN : WorkflowBuildsEnv(cacheHit)

SpecDispatch == DispatchInit /\ [][DispatchNext]_vars

(* ------------------------- a subscriber of the log stream --------------- *)
LogStreamInit == DispatchInit

LogStreamNext ==
    \/ append_live_log
    \/ LogStreamPoll
    \/ LogClockTick

SpecLogStream == LogStreamInit /\ [][LogStreamNext]_vars

(* ---------------------- the task delivered more than once --------------- *)
(* lines of a log that carry the message msg *)
LogCount(log, msg) == Cardinality({i \in DOMAIN log : log[i][2] = msg})

(* runs of orchestrate_deployment that got past the record lookup *)
Runs(d) == LogCount(wf[d].log, "Validating Hugging Face model")

(* endpoints the workflow obtained from provider.create_endpoint for d *)
EndpointsCreated(d) == LogCount(wf[d].log, "Runpod endpoint created")

(* The queue delivers the task of d again after the first run returned: the
   handler calls orchestrate_deployment, which starts from the top with fresh
   locals, whatever the record says; the record's log is kept. *)
TaskRedelivered(d) ==
    /\ wf[d].pc = "done"
    /\ Runs(d) <= MaxRedeliveries
    /\ IF get_deployment(store, d) = NoDoc
       THEN /\ docMissing' = [docMissing EXCEPT ![d] = TRUE]
            /\ wf' = wf
            /\ store' = store
       ELSE /\ docMissing' = docMissing
            /\ wf' = [wf EXCEPT ![d] =
                         [log_step([IdleWf EXCEPT !.log = wf[d].log],
                                   "INFO", "Validating Hugging Face model", 0)
                             EXCEPT !.pc = "validate_hf"]]
            /\ store' = update_deployment(store, d, [status |-> "validating"])
    /\ UNCHANGED << calls, prov, tasks, secrets, del, delResp, resp, clock, enqueued,
                    readyWrites, posts, delivered, cbCount >>
    /\ UNCHANGED aux

RedeliverNext ==
    \/ \E d \in Ids : OrchStart(d)
    \/ \E d \in Ids : TaskRedelivered(d)
    \/ \E d \in Ids, n \in 0..1 : OrchValidated(d, n)
    \/ \E d \in Ids, e \in HfErrorsFollowed : OrchValidateFailed(d, e)
    \/ \E d \in Ids : ProviderCreateOk(d)
    \/ \E d \in Ids, e \in ProviderErrorsFollowed : ProviderCreateFatal(d, e)
    \/ \E d \in Ids : OrchEndpointCreated(d)
    \/ \E d \in Ids : OrchProbeReady(d)
    \/ \E d \in Ids, err \in BOOLEAN : OrchProbeNotReady(d, err)
    \/ \E d \in Ids, t \in BOOLEAN : OrchMonitorTick(d, t)
    \/ \E d \in Ids, st \in {"loading_model", "ready"} : WorkerCallback(d, st, NoUrl)
    \/ \E d \in Ids, c \in Callers : NotifyAttempt(d, c, 200)

SpecRedeliver == OrchInit /\ [][RedeliverNext]_vars

(* ------------- the workflow and deletes the provider carries out -------- *)
(* The run of SpecOrch with a provider whose delete_endpoint always succeeds:
   an endpoint that is left was never asked to be deleted. *)
TeardownNext ==
    \/ \E d \in Ids : OrchStart(d)
    \/ \E d \in Ids, n \in 0..MaxCandidates : OrchValidated(d, n)
    \/ \E d \in Ids, e \in HfErrorsFollowed : OrchValidateFailed(d, e)
    \/ \E d \in Ids : ProviderCreateOk(d)
    \/ \E d \in Ids, e \in ProviderErrorsFollowed : ProviderCreateCapacity(d, e)
    \/ \E d \in Ids, e \in ProviderErrorsFollowed : ProviderCreateFatal(d, e)
    \/ \E d \in Ids : OrchEndpointCreated(d)
    \/ \E d \in Ids : OrchProbeReady(d)
    \/ \E d \in Ids, err \in BOOLEAN : OrchProbeNotReady(d, err)
    \/ \E d \in Ids, t \in BOOLEAN : OrchMonitorTick(d, t)
    \/ \E d \in Ids, st \in WorkerStatuses : WorkerCallback(d, st, NoUrl)
    \/ \E d \in Ids, c \in Callers : NotifyAttempt(d, c, 200)
    \/ \E d \in Ids : DeleteRequest(d, "userA")
    \/ \E d \in Ids : DeleteFinish(d, TRUE)

SpecTeardown == OrchInit /\ [][TeardownNext]_vars

(* ============================== claims ================================== *)
Exists(d) == store[d] # NoDoc

WorkflowInFlight(d) == tasks[d] > 0 \/ wf[d].pc \notin {"none", "done"}

Quiescent(d) ==
    /\ ~WorkflowInFlight(d)
    /\ del[d] = "idle"
    /\ \A c \in Callers : calls[d][c].pc # "notify"

(* C1: terminal statuses are absorbing: from ready, failed, webhook_failed or
   deleted the status changes only to deleted, or from ready to failed. *)
C1_TerminalAbsorbing ==
    [][\A d \in Ids :
          (Exists(d) /\ store[d].status \in TerminalStatuses) =>
              \/ store'[d].status = store[d].status
              \/ store'[d].status = "deleted"
              \/ store[d].status = "ready" /\ store'[d].status = "failed"]_vars

(* C2: once ready, the status stays ready under worker callbacks other than
   failed and under every status write of the workflow; it leaves ready for
   failed only in a step that handles a worker callback. *)
C2_ReadySticky ==
    [][\A d \in Ids :
          (Exists(d) /\ store[d].status = "ready") =>
              /\ store'[d].status \in {"ready", "failed", "deleted"}
              /\ store'[d].status = "failed" => cbCount'[d] = cbCount[d] + 1
              /\ wf'[d] # wf[d] => store'[d].status = "ready"]_vars

(* C3: ready_at, once set, is never overwritten with a different value. *)
C3_ReadyAtSetOnce ==
    [][\A d \in Ids :
          (Exists(d) /\ store[d].ready_at # 0) =>
              store'[d].ready_at = store[d].ready_at]_vars

(* C4: the user webhook receives at most one successful deployment_ready
   delivery per deployment. *)
C4_SingleDelivery == \A d \in Ids : delivered[d] <= 1

(* C7: a record with status ready has ready_at set and an endpoint_url that
   ends with /run. *)
C7_ReadyWellFormed ==
    \A d \in Ids :
        (Exists(d) /\ store[d].status = "ready") =>
            /\ store[d].ready_at # 0
            /\ EndsWithRun(store[d].endpoint_url)

(* C8: after a delete has set status deleted, no step of the in-flight
   workflow changes the status. *)
C8_DeleteStopsWorkflow ==
    [][\A d \in Ids :
          (Exists(d) /\ store[d].status = "deleted" /\ wf'[d] # wf[d]) =>
              store'[d].status = "deleted"]_vars

(* C9: every delete by the owner is answered 204, and after two of them the
   status is deleted once all in-flight work has finished (no worker
   callback having been handled). *)
OwnerDeletes(d) ==
    { i \in 1..Len(delResp[d]) : Exists(d) /\ delResp[d][i][1] = store[d].user_hash }

C9_DeleteIdempotent ==
    \A d \in Ids :
        /\ \A i \in OwnerDeletes(d) : delResp[d][i][2] = 204
        /\ (Cardinality(OwnerDeletes(d)) = 2 /\ Quiescent(d) /\ cbCount[d] = 0) =>
               store[d].status = "deleted"

(* C10: on the cold path the record is written before the orchestration task
   is enqueued, exactly one task is enqueued per accepted request, for the id
   answered to the caller, and the workflow never runs for an id without a
   record. *)
C10_RecordBeforeWork ==
    \A d \in Ids :
        /\ (tasks[d] > 0 \/ wf[d].pc # "none") => Exists(d)
        /\ enqueued[d] <= 1
        /\ (resp[d] = "accepted_cold") <=> (enqueued[d] = 1)
        /\ resp[d] = "accepted_cold" => Exists(d)
        /\ ~docMissing[d]

C10_Witness ==
    \E d \in Ids : resp[d] = "accepted_cold" /\ wf[d].pc = "validate_hf"
                   /\ store[d].status = "validating"

(* C5: when a worker ready callback races with a probe success on a
   loading_model deployment, exactly one invocation of
   mark_deployment_ready_and_notify writes ready/ready_at and posts to the
   webhook; an invocation that did not write has returned true without any
   POST. *)
RaceCallers == {"worker", "probe"}

C5_RaceExactlyOneWriter ==
    \A d \in Ids :
        /\ readyWrites[d] <= 1
        /\ (\A c \in RaceCallers : calls[d][c].pc # "idle") => readyWrites[d] = 1
        /\ \A c \in RaceCallers :
               (calls[d][c].pc # "idle" /\ ~calls[d][c].wrote) =>
                   /\ calls[d][c].pc = "done"
                   /\ calls[d][c].result = TRUE
                   /\ calls[d][c].attempt = 0
                   /\ store[d].status = "ready" /\ store[d].ready_at # 0
        /\ readyWrites[d] = 1 => store[d].status = "ready" /\ store[d].ready_at = 1
        /\ posts[d] <= WebhookMaxRetries
        /\ delivered[d] <= 1

C5_Witness ==
    \E d \in Ids :
        /\ calls[d]["worker"].wrote /\ calls[d]["worker"].pc = "notify"
        /\ calls[d]["probe"].pc = "done" /\ ~calls[d]["probe"].wrote
        /\ calls[d]["probe"].result = TRUE

(* C6 as stated: two invocations in sequence, on a record not yet ready with
   ready_at, make exactly one store update to ready and at most two webhook
   POSTs, and the second leaves ready_at as the first left it. *)
SecondReturned(d) == cbCount[d] >= 2 /\ calls[d]["worker"].pc = "done"

C6_AtMostTwoPosts ==
    \A d \in Ids :
        (SecondReturned(d) /\ readyWrites[d] > 0) =>
            /\ readyWrites[d] = 1
            /\ posts[d] <= 2

(* C6 amended: exactly one store update to ready (none when the record was
   already ready with ready_at), at most WebhookMaxRetries POSTs, all sent by
   the first invocation, and ready_at as the first invocation left it. *)
C6_SequentialIdempotent ==
    /\ [](\A d \in Ids :
            /\ posts[d] <= WebhookMaxRetries
            /\ cbCount[d] >= 1 =>
                  \/ readyWrites[d] = 1 /\ store[d].status = "ready" /\ store[d].ready_at = 2
                  \/ /\ readyWrites[d] = 0 /\ posts[d] = 0
                     /\ store[d].status = "ready" /\ store[d].ready_at = 1)
    /\ [][\A d \in Ids :
            (cbCount[d] >= 1 /\ cbCount'[d] = cbCount[d] + 1) =>
                /\ store'[d] = store[d]
                /\ readyWrites'[d] = readyWrites[d]
                /\ posts'[d] = posts[d]
                /\ calls'[d]["worker"].result = TRUE]_vars

C6_Witness ==
    \E d \in Ids :
        /\ SecondReturned(d) /\ readyWrites[d] = 1
        /\ posts[d] = WebhookMaxRetries /\ delivered[d] = 0

(* the step in which invocation c for d learns that every attempt failed *)
DeliveryFailed(d, c) ==
    /\ calls[d][c].pc = "notify"
    /\ calls'[d][c].pc = "done"
    /\ ~calls'[d][c].result

(* C12: when every webhook attempt has failed, the invocation returns false,
   the status and ready_at are left as they were (ready stays ready, with
   ready_at set), the error is 'User webhook delivery failed after retries',
   one WARNING line is appended, and no record ever has status
   webhook_failed. *)
C12_FailureKeepsReady ==
    /\ [](\A d \in Ids : Exists(d) => store[d].status # "webhook_failed")
    /\ [][\A d \in Ids, c \in Callers :
            DeliveryFailed(d, c) =>
                /\ calls'[d][c].attempt = WebhookMaxRetries
                /\ store'[d].status = store[d].status
                /\ store'[d].ready_at = store[d].ready_at
                /\ store[d].status = "ready" => store'[d].ready_at # 0
                /\ store'[d].error = "User webhook delivery failed after retries"
                /\ warnLogs'[d] = warnLogs[d] + 1]_vars

C12_Witness ==
    \E d \in Ids, c \in Callers :
        /\ calls[d][c].pc = "done" /\ calls[d][c].wrote /\ ~calls[d][c].result
        /\ store[d].status = "ready" /\ store[d].ready_at # 0
        /\ store[d].error = "User webhook delivery failed after retries"
        /\ warnLogs[d] = 1

(* C13: one persistent delivery failure raises
   webhook_delivery_failures_total by exactly 1. *)
C13_FailureCountedOnce ==
    [][\A d \in Ids, c \in Callers :
          DeliveryFailed(d, c) => failures' = failures + 1]_vars

(* C14: notify makes at most WebhookMaxRetries POSTs; it returns true exactly
   on a 2xx answer and makes no attempt after it; it returns false only after
   WebhookMaxRetries attempts without a 2xx answer; before attempt n+1 it has
   slept 2^n seconds, and it does not sleep after the last attempt. *)
Is2xx(code) == code \in 200..299

ExpectedSleeps(k) == [i \in 1..k |-> 2 ^ (i - 1)]

C14_NotifyRetries ==
    /\ [](\A d \in Ids, c \in Callers :
            LET call == calls[d][c] IN
            call.wrote =>
                /\ call.attempt <= WebhookMaxRetries
                /\ call.pc = "notify" =>
                       /\ call.attempt < WebhookMaxRetries
                       /\ call.attempt > 0 => ~Is2xx(call.last)
                       /\ call.slept = ExpectedSleeps(call.attempt)
                /\ (call.pc = "done" /\ call.result) =>
                       /\ call.attempt >= 1 /\ Is2xx(call.last)
                       /\ call.slept = ExpectedSleeps(call.attempt - 1)
                /\ (call.pc = "done" /\ ~call.result) =>
                       /\ call.attempt = WebhookMaxRetries /\ ~Is2xx(call.last)
                       /\ call.slept = ExpectedSleeps(WebhookMaxRetries - 1))
    /\ [][\A d \in Ids, c \in Callers :
            /\ Is2xx(calls'[d][c].last) /\ calls'[d][c].attempt > 0
                   => calls'[d][c].pc = "done" /\ calls'[d][c].result
            /\ calls'[d][c].attempt = calls[d][c].attempt + 1
                   => calls[d][c].pc = "notify" /\ posts'[d] = posts[d] + 1]_vars

C14_Witness ==
    \E d \in Ids, c \in Callers :
        /\ calls[d][c].pc = "done" /\ calls[d][c].result
        /\ calls[d][c].attempt = WebhookMaxRetries
        /\ calls[d][c].last = 204
        /\ calls[d][c].slept = << 1, 2 >>

(* C15: a webhook POST answered with 400, 401 or 404 is not sent again. *)
C15_NoRetryAfter4xx ==
    [][\A d \in Ids, c \in Callers :
          calls[d][c].last \in {400, 401, 404} =>
              calls'[d][c].attempt # calls[d][c].attempt + 1]_vars

(* C11: a request for a record by a caller whose user_hash differs from the
   record's is answered 404 DeploymentNotFound, carries nothing of the
   record, leaves the record and the provider endpoint unchanged, and is
   answered exactly as for an id without a record; this holds for GET, the
   log stream, the status stream and DELETE. *)
Foreign(d, caller) == Exists(d) /\ ~Owns(store[d], caller)

Hidden(st, d) == [st EXCEPT ![d] = NoDoc]

C11_CrossTenant404 ==
    /\ [](\A d \in Ids, u \in Users :
            Foreign(d, u) =>
                /\ get_deployment_status(store, d, u).code = 404
                /\ get_deployment_status(store, d, u) = get_deployment_status(Hidden(store, d), d, u)
                /\ stream_deployment_logs(store, d, u).code = 404
                /\ stream_deployment_logs(store, d, u) = stream_deployment_logs(Hidden(store, d), d, u)
                /\ \A i \in 1..Len(delResp[d]) :
                       delResp[d][i][1] = u => delResp[d][i][2] = 404)
    /\ [](sse.pc # "none" /\ Foreign(sse.id, sse.caller) =>
            /\ sse.code = 404
            /\ \A i \in 1..Len(sse.events) : sse.events[i].event = "error")
    /\ [][\A d \in Ids :
            (Exists(d) /\ (tenant' # tenant \/ sse' # sse
                           \/ (Len(delResp'[d]) > Len(delResp[d])
                               /\ delResp'[d][Len(delResp'[d])][1] # store[d].user_hash)))
                => store'[d] = store[d] /\ prov'[d] = prov[d]]_vars

(* C16: the candidate list holds exactly the registry entries with
   vram >= required, each id once; the entries of the tier's candidate set
   come first, and within each part the order is ascending (cost_index,
   vram); an empty list is reported as InsufficientGPU with required_vram_gb;
   select_gpu_id_for_vram returns the first element of the list. *)
GpuReg == EffectiveRegistry(gpu.registry)

GpuList == [i \in DOMAIN gpu.candidates.list |-> gpu.candidates.list[i][1]]

GpuTierIds == Range(TierCandidates(gpu.gpu_tier, gpu.tier_mapping))

EntryOf(id) == CHOOSE x \in Range(GpuReg) : x.id = id

C16_CandidateList ==
    gpu.done =>
        /\ \A i \in DOMAIN GpuList :
               \E x \in Range(GpuReg) : x.id = GpuList[i] /\ x.vram >= gpu.vram_gb
        /\ \A x \in Range(GpuReg) : x.vram >= gpu.vram_gb => x.id \in Range(GpuList)
        /\ \A i, j \in DOMAIN GpuList : i # j => GpuList[i] # GpuList[j]
        /\ \A i, j \in DOMAIN GpuList :
               i < j =>
                   /\ GpuList[j] \in GpuTierIds => GpuList[i] \in GpuTierIds
                   /\ (GpuList[i] \in GpuTierIds <=> GpuList[j] \in GpuTierIds)
                          => ~KeyLess(EntryOf(GpuList[j]), EntryOf(GpuList[i]))
        /\ (GpuList = << >>) <=> (gpu.candidates.error = "InsufficientGPU")
        /\ gpu.candidates.required_vram_gb = gpu.vram_gb
        /\ gpu.first = IF GpuList = << >> THEN NoGpu ELSE GpuList[1]

C16_Witness ==
    /\ gpu.done
    /\ Len(GpuList) >= 2
    /\ GpuList[1] \in GpuTierIds
    /\ KeyLess(EntryOf(GpuList[2]), EntryOf(GpuList[1]))
    /\ \E x \in Range(GpuReg) : x.id \in GpuTierIds /\ x.vram < gpu.vram_gb
    /\ gpu.first = GpuList[1]

(* C17: default registry, 8 GB required, no tier: the first candidate is
   AMPERE_24. *)
C17_DefaultRegistry8GB ==
    (gpu.done /\ GpuReg = DEFAULT_GPU_REGISTRY /\ gpu.vram_gb = 8 /\ gpu.gpu_tier = NoTier) =>
        /\ gpu.first = "AMPERE_24"
        /\ GpuList[1] = "AMPERE_24"

(* C18: after a call of the rate-limit check for a subject, accepted or
   rejected, the subject's bucket holds no timestamp older than 60 seconds
   at the time of the call. *)
C18_NoStaleTimestamps ==
    \A s \in rate.last.checked :
        \A i \in DOMAIN rate.bucket[s] :
            rate.last.at - rate.bucket[s][i] <= RATE_LIMIT_WINDOW

C18_Witness ==
    /\ rate.last.dropped > 0
    /\ rate.last.code = 200
    /\ Len(rate.bucket[rate.last.user]) = 1

(* C19: per subject at most `limit` requests are accepted within any 60
   seconds (the window (t - 60, t]) and the bucket never holds more than
   `limit` timestamps, the limit of a client IP being twice that of a
   user_hash; a request made while `limit` accepted requests of its subject
   lie within the preceding 60 seconds is rejected with 429 and
   retry_after_seconds = 60. *)
LimitOf(s) == IF s \in ClientIps THEN 2 * RateLimitPerMinute ELSE RateLimitPerMinute

C19_SlidingWindow ==
    /\ [](\A s \in Subjects :
            /\ Len(rate.recent[s]) <= LimitOf(s)
            /\ Len(rate.bucket[s]) <= LimitOf(s))
    /\ [](rate.last.code = 429 => rate.last.retry_after_seconds = 60)
    /\ [][\A u \in RateUsers, ip \in ClientIps :
            ( /\ rate'.last # rate.last
              /\ rate'.last.user = u /\ rate'.last.ip = ip
              /\ \/ Len(rate.recent[u]) >= LimitOf(u)
                 \/ Len(rate.recent[ip]) >= LimitOf(ip) )
                => rate'.last.code = 429 /\ rate'.recent = rate.recent]_vars

C19_Witness ==
    /\ rate.last.code = 429
    /\ rate.last.checked = {rate.last.user, rate.last.ip}
    /\ Len(rate.recent[rate.last.ip]) = 2 * RateLimitPerMinute
    /\ Len(rate.recent[rate.last.user]) = 0

(* C20: the status stream emits a status event only for a polled status
   that differs from the status of the last event (never two consecutive
   events with the same status, and the stream remembers what it emitted);
   a terminal status is emitted once, as the last event, and the stream then
   ends; a stream polling a deployment that stays in a terminal status
   eventually ends. *)
StatusEvents == { i \in DOMAIN sse.events : sse.events[i].event = "status" }

LastEmitted == IF sse.events = << >> THEN "none" ELSE sse.events[Len(sse.events)].status

StreamSeesTerminal ==
    /\ sse.pc = "poll"
    /\ Exists(sse.id)
    /\ store[sse.id].status \in TerminalStatuses

C20_StatusStream ==
    /\ [](\A i \in StatusEvents :
            /\ i > 1 => sse.events[i].status # sse.events[i - 1].status
            /\ sse.events[i].status \in TerminalStatuses =>
                   i = Len(sse.events) /\ sse.pc = "closed")
    /\ [](sse.pc = "poll" => sse.last_status = LastEmitted)
    /\ [](sse.pc = "closed" =>
            \/ LastEmitted \in TerminalStatuses
            \/ sse.events[Len(sse.events)].event = "error")
    /\ [][sse'.events # sse.events =>
            /\ sse.pc = "poll"
            /\ Len(sse'.events) = Len(sse.events) + 1
            /\ SubSeq(sse'.events, 1, Len(sse.events)) = sse.events
            /\ sse'.events[Len(sse'.events)].event = "status" =>
                   /\ sse'.events[Len(sse'.events)].status = store[sse.id].status
                   /\ store[sse.id].status # LastEmitted]_vars
    /\ (StreamSeesTerminal ~> (sse.pc # "poll" \/ ~StreamSeesTerminal))

C20_Witness ==
    /\ sse.pc = "closed"
    /\ Len(sse.events) = 3
    /\ sse.events[1].status = "loading_model"
    /\ sse.events[2].status = "downloading_model"
    /\ sse.events[3].status = "ready"

(* the endpoints of the request's list that the claim counts as a warm match *)
NamedForCaller(req, ep) ==
    ep.name \in {user_endpoint_name(req.user), pool_endpoint_name}

LiveStatus(ep) == Upper(ep.status) \notin {"TERMINATED", "DELETED", "FAILED", "STOPPED"}

Accepted(req) == get_request_context(req) = 200 /\ Validate(req) = "ok"

ListedMatches(req) ==
    IF req.list_raises THEN {}
    ELSE { i \in DOMAIN req.endpoints :
             NamedForCaller(req, req.endpoints[i]) /\ LiveStatus(req.endpoints[i]) }

(* the record and the answer of the warm path, for an endpoint URL among urls *)
WarmOutcome(d, urls) ==
    /\ store[d].status = "ready"
    /\ store[d].endpoint_url \in urls
    /\ enqueued[d] = 0 /\ tasks[d] = 0 /\ wf[d].pc = "none"
    /\ prov[d] = "none"
    /\ resp[d] \in {"none", "warm_ready"}
    /\ resp[d] = "warm_ready" => calls[d]["warm"].pc = "done" /\ posts[d] >= 1

(* C21 as stated: whenever the endpoint list holds an endpoint with the
   caller's name or the pool name and a status outside TERMINATED, DELETED,
   FAILED, STOPPED, the record is created in ready with that endpoint's URL,
   the webhook is delivered before the answer, the answer is warm, and no
   task is enqueued and no endpoint created. (Read in the claim's favour: the
   matching endpoints all have a URL, and the URL may be stored in its /run
   form.) *)
C21_WarmOnAnyMatch ==
    \A d \in Ids :
        ( /\ Exists(d) /\ Accepted(intake.req)
          /\ ListedMatches(intake.req) # {}
          /\ \A i \in ListedMatches(intake.req) : intake.req.endpoints[i].url # NoUrl ) =>
            WarmOutcome(d, UNION { { intake.req.endpoints[i].url,
                                     _as_run_url(intake.req.endpoints[i].url) } :
                                   i \in ListedMatches(intake.req) })

(* the matches the pool policy admits: the pool name counts only under a
   warm pool policy *)
PolicyMatches(req) ==
    { i \in ListedMatches(req) :
        req.endpoints[i].name = pool_endpoint_name => req.pool_is_warm }

FirstPolicyMatch(req) ==
    CHOOSE i \in PolicyMatches(req) : \A j \in PolicyMatches(req) : i <= j

(* C21 amended: when the first listed endpoint with the caller's name (or,
   under a warm pool policy, the pool name) and a live status has a URL, the
   record is created in ready with that URL in its /run form, the webhook
   attempts are made before the answer, the answer is warm, and no task is
   enqueued and no endpoint created. *)
C21_WarmOnFirstMatch ==
    \A d \in Ids :
        ( /\ Exists(d) /\ Accepted(intake.req)
          /\ PolicyMatches(intake.req) # {}
          /\ intake.req.endpoints[FirstPolicyMatch(intake.req)].url # NoUrl ) =>
            /\ WarmOutcome(d, { _as_run_url(intake.req.endpoints[FirstPolicyMatch(intake.req)].url) })
            /\ store[d].ready_at # 0
            /\ store[d].user_hash = intake.req.user

C21_Witness ==
    \E d \in Ids :
        /\ Exists(d) /\ resp[d] = "warm_ready" /\ delivered[d] = 1
        /\ Len(intake.req.endpoints) = 2
        /\ PolicyMatches(intake.req) = {2}
        /\ intake.req.endpoints[2].name = pool_endpoint_name
        /\ intake.req.endpoints[2].url = RootUrl
        /\ store[d].endpoint_url = RunUrl

(* the requests the claim names as rejected synchronously *)
SyncRejected(req) ==
    \/ ~req.token \/ ~req.rate_ok
    \/ req.hf_model_id # "" /\ req.model_name # ""
    \/ req.hf_model_id = "" /\ req.model_name = ""
    \/ req.hf_model_id = "" /\ req.model_name = "nope"
    \/ req.task = "text2video"
    \/ (req.user_s3_url \/ req.user_aws_keys) /\ req.cache_scope # "private"
    \/ ~req.runpod_key

(* C22: a create request rejected synchronously (unknown alias, both or
   neither of hf_model_id and model_name, unsupported task, private-cache
   fields without cache_scope=private, missing provider key, authentication
   or rate-limit failure) is answered with an error and persists no record,
   caches no secrets and enqueues no task. *)
C22_RejectedLeavesNothing ==
    /\ SyncRejected(intake.req) =>
           /\ \A d \in Ids : store[d] = NoDoc /\ ~secrets[d] /\ tasks[d] = 0
                              /\ enqueued[d] = 0 /\ wf[d].pc = "none" /\ resp[d] = "none"
           /\ ~intake.pending => intake.code \in {400, 401, 429}
    /\ intake.code # 0 =>
           \A d \in Ids : store[d] = NoDoc /\ ~secrets[d] /\ tasks[d] = 0 /\ enqueued[d] = 0

C22_Witness ==
    /\ intake.code = 400 /\ intake.error = "UnknownModel"
    /\ intake.req.model_name = "nope"
    /\ \A d \in Ids : store[d] = NoDoc /\ ~secrets[d] /\ enqueued[d] = 0

(* ------------------------------- C23 ----------------------------------- *)
(* the last internal request came without the configured secret: the secret
   it supplied, header first and query otherwise, is absent or different *)
BadSecretRequest(r) ==
    /\ r.endpoint \in InternalEndpoints
    /\ intl.secret # NoSecret
    /\ provided_secret(r.header, r.query) # intl.secret

(* C23: with a non-empty internal secret configured, a request to the
   deployment-ready, logs, cleanup or orchestrate-task endpoint whose supplied
   secret is absent or different is answered 403, and the step that answers
   403 changes no deployment record, no live log ring and no provider
   endpoint. *)
C23_BadSecretRejected ==
    /\ [](BadSecretRequest(intl.last) => intl.last.code = 403)
    /\ [][(intl'.last # intl.last /\ intl'.last.code = 403)
            => /\ store' = store
               /\ intl'.ring = intl.ring
               /\ prov' = prov
               /\ wf' = wf /\ cln' = cln /\ secrets' = secrets]_vars

(* C23 witness: a callback with a wrong header secret was refused while the
   record was waiting for its worker; a cleanup without any secret was refused
   on a record with a live endpoint. *)
C23_Witness ==
    /\ intl.secret # NoSecret
    /\ intl.last.code = 403
    /\ \/ /\ intl.last.endpoint = "deployment-ready"
          /\ intl.last.header = "wrong"
          /\ store[intl.last.id] # NoDoc
          /\ store[intl.last.id].status = "loading_model"
          /\ intl.ring[intl.last.id] = 1

(* ------------------------------- C24 ----------------------------------- *)
(* the WARNING lines of the create loop, in the order they were logged *)
IsCapacityWarning(entry) == entry[1] = "WARNING" /\ entry[2] = "GPU candidate unavailable"

CandidatesWarned(d) == SelectSeq(wf[d].log, IsCapacityWarning)

(* C24: candidates are tried in list order; a capacity error on candidate i
   logs a WARNING naming i, leaves the record alone and moves to i+1; on the
   first success the record reaches loading_model with gpu_allocated the
   display name of the candidate that succeeded; when every candidate fails
   with a capacity error the record fails with the last candidate's message. *)
C24_CandidateRotation ==
    /\ [](\A d \in Ids :
             wf[d].pc \in {"create", "create_returned"} =>
                /\ CandidatesWarned(d) = CapacityWarnings(wf[d].cand - 1)
                /\ wf[d].creates = IF wf[d].pc = "create" THEN wf[d].cand - 1 ELSE wf[d].cand)
    /\ [][\A d \in Ids :
             /\ \A e \in ProviderErrors :
                   ProviderCreateCapacity(d, e) =>
                      IF wf[d].cand < wf[d].ncand
                      THEN /\ wf'[d].pc = "create" /\ wf'[d].cand = wf[d].cand + 1
                           /\ wf'[d].log = Append(wf[d].log,
                                  << "WARNING", "GPU candidate unavailable", Display(wf[d].cand) >>)
                           /\ store'[d] = store[d]
                      ELSE /\ wf'[d].pc = "done"
                           /\ store'[d].status = "failed"
                           /\ store'[d].error = e.message
             /\ OrchEndpointCreated(d) =>
                   /\ store'[d].status = "loading_model"
                   /\ store'[d].gpu_allocated = Display(wf[d].cand)
                   /\ CandidatesWarned(d) = CapacityWarnings(wf[d].cand - 1)]_vars

(* C24 witness: the first two candidates had no capacity, the third was
   created and the record is loading on it. *)
C24_Witness ==
    \E d \in Ids :
        /\ wf[d].pc = "probe" /\ wf[d].cand = 3 /\ wf[d].creates = 3
        /\ store[d].status = "loading_model" /\ store[d].gpu_allocated = Display(3)
        /\ Len(CandidatesWarned(d)) = 2

(* ------------------------------- C25 ----------------------------------- *)
(* C25: a provider create error that is no capacity error ends the create
   phase at once: the workflow is over with no further create call, no
   endpoint id is persisted, and the record fails with that error's message. *)
C25_FatalEndsCreate ==
    /\ [][\A d \in Ids : \A e \in ProviderErrors :
             (wf[d].pc = "create" /\ ~is_capacity_error(e.message)
                 /\ (ProviderCreateCapacity(d, e) \/ ProviderCreateFatal(d, e))) =>
                /\ wf'[d].pc = "done"
                /\ wf'[d].creates = wf[d].creates + 1
                /\ wf'[d].cand = wf[d].cand
                /\ store'[d].runpod_endpoint_id = "none"
                /\ store'[d].status = "failed"
                /\ store'[d].error = e.message]_vars
    /\ [][\A d \in Ids : (wf[d].pc = "done" /\ prov[d] = "none") =>
                (wf'[d].creates = wf[d].creates /\ prov'[d] = "none")]_vars

(* C25 witness: the second of three candidates raised an error that is no
   capacity error; the third was never tried. *)
C25_Witness ==
    \E d \in Ids :
        /\ wf[d].pc = "done" /\ wf[d].ncand = 3 /\ wf[d].cand = 2 /\ wf[d].creates = 2
        /\ store[d].status = "failed" /\ store[d].error = "Provider error"
        /\ store[d].runpod_endpoint_id = "none"
        /\ prov[d] = "none"

(* ------------------------------- C26 ----------------------------------- *)
(* C26: the workflow of one deployment makes at most 3 provider create
   attempts, however many candidates the selector returned and however many
   of them fail with capacity errors. *)
C26_AtMostThreeCreates == \A d \in Ids : wf[d].creates <= 3

(* ------------------------------- C27 ----------------------------------- *)
(* the step is the workflow of d ending with the exception e *)
WorkflowFailsWith(d, e) ==
    \/ OrchValidateFailed(d, e)
    \/ ProviderCreateFatal(d, e)
    \/ wf[d].cand = wf[d].ncand /\ ProviderCreateCapacity(d, e)
    \/ e = Err("RunpodInsufficientGPUError", "No GPU available") /\ OrchValidated(d, 0)

WorkflowErrors ==
    HfErrors \cup ProviderErrors \cup {Err("RunpodInsufficientGPUError", "No GPU available")}

(* C27: a failure inside the workflow (model not found or validation timeout,
   no GPU with enough VRAM, provider error, unexpected exception) leaves the
   record failed with the failure's message and an ERROR log line with it;
   the workflow has then returned and no exception left it. *)
C27_FailureCaptured ==
    /\ [](\A d \in Ids : ~wf[d].raised)
    /\ [][\A d \in Ids : \A e \in WorkflowErrors :
             WorkflowFailsWith(d, e) =>
                /\ store'[d].status = "failed"
                /\ store'[d].error = e.message
                /\ wf'[d].log = Append(
                       IF e.kind = "RunpodAPIError" /\ is_capacity_error(e.message)
                       THEN Append(wf[d].log, << "WARNING", "GPU candidate unavailable",
                                                 Display(wf[d].cand) >>)
                       ELSE IF e.kind = "RunpodInsufficientGPUError"
                       THEN Append(wf[d].log, << "INFO", "HF model validated", 0 >>)
                       ELSE wf[d].log,
                       << "ERROR", e.message, 0 >>)
                /\ wf'[d].pc = "done"
                /\ ~wf'[d].raised]_vars

(* C27 witness: the model lookup timed out, and a provider call died of an
   unexpected exception in another behaviour; each left a failed record with
   the message and an ERROR line, and nothing was raised. *)
C27_Witness ==
    \E d \in Ids :
        /\ wf[d].pc = "done" /\ ~wf[d].raised
        /\ store[d].status = "failed"
        /\ store[d].error \in {"connection reset"}
        /\ wf[d].log[Len(wf[d].log)] = << "ERROR", "connection reset", 0 >>

(* ------------------------------- C28 ----------------------------------- *)
WaitingStatuses == {"loading_model", "downloading_model"}

TimeoutWarning == << "WARNING", "Readiness monitor timed out; waiting for worker webhook", 0 >>

(* C28: the monitor reaching its limit on a record that is not terminal logs a
   WARNING, leaves the record (status loading_model or downloading_model, no
   error) as it is and ends the workflow; a worker ready callback handled
   afterwards on the waiting record writes ready and starts the delivery of
   the user webhook, which the webhook's 2xx answer completes. *)
C28_TimeoutSurrenders ==
    /\ [][\A d \in Ids :
             /\ (OrchMonitorTick(d, TRUE) /\ store[d].status \notin TerminalStatuses) =>
                   /\ wf'[d].log = Append(wf[d].log, TimeoutWarning)
                   /\ wf'[d].pc = "done"
                   /\ store'[d] = store[d]
                   /\ store[d].status \in WaitingStatuses
             /\ (wf[d].timed_out /\ store[d].status \in WaitingStatuses
                    /\ \E url \in Urls : WorkerCallback(d, "ready", url)) =>
                   /\ store'[d].status = "ready"
                   /\ calls'[d]["worker"].pc = "notify"
             /\ (wf[d].timed_out /\ calls[d]["worker"].pc = "notify"
                    /\ \E c \in Callers : NotifyAttempt(d, c, 200)) =>
                   /\ delivered'[d] = delivered[d] + 1
                   /\ calls'[d]["worker"].result]_vars
    /\ [](\A d \in Ids : wf[d].timed_out => wf[d].pc = "done")

(* C28 witness: the monitor timed out, the worker reported ready later, the
   record is ready and the user webhook was delivered; the probe never marked
   the deployment. *)
C28_Witness ==
    \E d \in Ids :
        /\ wf[d].timed_out /\ wf[d].pc = "done"
        /\ wf[d].log[Len(wf[d].log)] = TimeoutWarning
        /\ store[d].status = "ready" /\ store[d].error = "none"
        /\ calls[d]["worker"].wrote /\ calls[d]["worker"].result
        /\ ~calls[d]["probe"].wrote
        /\ delivered[d] = 1

(* ------------------------------- C29 ----------------------------------- *)
(* C29: once the workflow of a deployment has completed, with any outcome,
   the secret cache holds no entry for the deployment. *)
C29_SecretsClearedOnCompletion ==
    \A d \in Ids : wf[d].pc = "done" => ~secrets[d]

(* ------------------------------- C30 ----------------------------------- *)
(* the cleanup request for d passed the secret check in this step *)
CleanupHandled(d, expired) ==
    \E s \in SecretPairs :
        /\ SecretAccepted(intl.secret, provided_secret(s[1], s[2]))
        /\ cleanup_endpoint(d, s[1], s[2], expired)

(* C30: worker-initiated cleanup writes the record, status deleted, only when
   provider.delete_endpoint has returned; when the provider delete fails the
   record stays as it was; when the record has no endpoint id or the cache
   holds no unexpired secrets the record stays as it was and the provider is
   not called. *)
C30_CleanupAfterProviderDelete ==
    [][\A d \in Ids :
          /\ \A x \in BOOLEAN :
                CleanupHandled(d, x) =>
                   /\ store' = store /\ prov' = prov
                   /\ (store[d] = NoDoc \/ store[d].runpod_endpoint_id = "none"
                          \/ ~secrets[d] \/ x) =>
                         /\ ~cln'[d].called
                         /\ cln'[d].pc = "done" /\ cln'[d].status = "noop"
          /\ CleanupFinish(d, FALSE) =>
                /\ store' = store /\ prov' = prov
                /\ cln'[d].status = "error"
          /\ CleanupFinish(d, TRUE) =>
                /\ cln[d].called
                /\ store'[d].status = "deleted"
                /\ prov'[d] # "live"]_vars

(* C30 witness: the provider delete failed for a record that was loading; the
   cleanup answered error and the record is as it was. *)
C30_Witness ==
    \E d \in Ids :
        /\ cln[d].pc = "done" /\ cln[d].status = "error" /\ cln[d].called
        /\ store[d].status = "loading_model"
        /\ store[d].runpod_endpoint_id = "ep"
        /\ prov[d] = "live"

(* ------------------------------- C31 ----------------------------------- *)
IsPrefix(s, t) == Len(s) <= Len(t) /\ SubSeq(t, 1, Len(s)) = s

(* C31: under any interleaving of append_log and update_deployment calls on
   one record, every appended entry is in the record's logs, every updated
   field holds the value last written to it, and the log list only grows at
   its end: a list read earlier is a prefix of the list read later. *)
C31_AppendAtomic ==
    /\ [](/\ \A entry \in repo.appended : \E i \in DOMAIN repo.doc.logs : repo.doc.logs[i] = entry
          /\ \A f \in DOMAIN repo.written : repo.doc[f] = repo.written[f]
          /\ IsPrefix(repo.seen, repo.doc.logs))
    /\ [][IsPrefix(repo.doc.logs, repo'.doc.logs)]_vars

(* C31 witness: two log lines were appended around updates of status and
   error, and a reader saw the list between the appends. *)
C31_Witness ==
    /\ Len(repo.doc.logs) = 2
    /\ DOMAIN repo.written = {"status", "error"}
    /\ Len(repo.seen) = 1

(* ------------------------------- C32 ----------------------------------- *)
(* C32: a model id of the curated registry gets the registry's gpu_memory_gb
   whatever weight and parameter count are supplied; any other id gets the
   byte-based estimate when weight bytes > 0, else the parameter-count table
   value when a count is supplied, else 16. *)
C32_RegistryFirst ==
    est.done =>
        /\ est.model_id = "black-forest-labs/FLUX.1-dev" => est.result = 28
        /\ est.model_id = "black-forest-labs/FLUX.1-schnell" => est.result = 16
        /\ est.model_id \in DOMAIN MODEL_SPECS_REGISTRY =>
               est.result = MODEL_SPECS_REGISTRY[est.model_id]
        /\ (est.model_id \notin DOMAIN MODEL_SPECS_REGISTRY /\ est.weight > 0) =>
               est.result = est.byte_estimate
        /\ (est.model_id \notin DOMAIN MODEL_SPECS_REGISTRY /\ est.weight <= 0
               /\ est.params # NoneInt) =>
               /\ est.result = _estimate_vram_from_params(est.params)
               /\ est.params = 0 => est.result = 6
               /\ est.params = 501 => est.result = 8
               /\ est.params = 70001 => est.result = 80
        /\ (est.model_id \notin DOMAIN MODEL_SPECS_REGISTRY /\ est.weight <= 0
               /\ est.params = NoneInt) => est.result = 16

(* C32 witness: FLUX.1-dev with the weight of 12 B BF16 parameters (22.4 GiB,
   a byte estimate of 40) gets the registry's 28. *)
C32_Witness ==
    /\ est.done /\ est.model_id = "black-forest-labs/FLUX.1-dev"
    /\ est.weight = 358 /\ est.byte_estimate = 40 /\ est.result = 28

(* ------------------------------- C33 ----------------------------------- *)
TierSet == { _GPU_TIERS[i] : i \in DOMAIN _GPU_TIERS }

(* the least tier that is >= gb, 0 when there is none *)
LeastTierAtLeast(gb) ==
    LET ok == { t \in TierSet : t >= gb }
    IN  IF ok = {} THEN 0 ELSE CHOOSE t \in ok : \A u \in ok : t <= u

(* C33 as stated: for every weight total the byte-based estimate is the least
   tier that is >= the weight in GB times 1.35, rounded up, and is never
   below that size. *)
C33_SnapUpAlways ==
    (est.done /\ est.weight > 0) =>
        /\ est.byte_estimate = LeastTierAtLeast(CeilScaledGb(est.weight))
        /\ est.byte_estimate >= CeilScaledGb(est.weight)

(* ------------------------------- C34 ----------------------------------- *)
(* C34: no operation writes status=webhook_failed: no record ever carries
   it, whatever the workflow, the ready marking, the webhook failure
   handling, the worker callbacks and the deletes do. *)
C34_WebhookFailedUnreachable ==
    /\ \A d \in Ids : store[d] # NoDoc => store[d].status # "webhook_failed"
    /\ "webhook_failed" \notin WorkerStatuses

(* C34 witness: the user webhook refused every attempt; the failure was
   recorded in error and the record is still ready. *)
C34_Witness ==
    \E d \in Ids : \E c \in Callers :
        /\ calls[d][c].pc = "done" /\ calls[d][c].wrote /\ ~calls[d][c].result
        /\ calls[d][c].attempt = WebhookMaxRetries
        /\ store[d].status = "ready"
        /\ store[d].error = "User webhook delivery failed after retries"

(* ------------------------------- C35 ----------------------------------- *)
(* a delete request of the owner for d has been answered 204 *)
DeleteReturned(d) == \E i \in DOMAIN delResp[d] : delResp[d][i] = << "userA", 204 >>

(* C35: once a delete of a deployment has returned and all work for it is
   over, no endpoint created for the deployment is left at the provider, also
   when the delete arrived before the workflow persisted an endpoint id. *)
C35_NoEndpointLeftAfterDelete ==
    \A d \in Ids : (DeleteReturned(d) /\ Quiescent(d)) => prov[d] # "live"

(* ------------------------------- C36 ----------------------------------- *)
(* C36: the workflow is idempotent under redelivery of its task: at most one
   provider endpoint is ever created for a deployment, and a second run does
   not move a record that is ready or loading_model back to validating. *)
C36_IdempotentUnderRedelivery ==
    [][\A d \in Ids :
          /\ EndpointsCreated(d)' <= 1
          /\ (TaskRedelivered(d) /\ Exists(d)
                  /\ store[d].status \in {"ready", "loading_model"})
                 => store'[d].status # "validating"]_vars

(* ------------------------------- C37 ----------------------------------- *)
(* C37: whichever way the task was dispatched, the workflow builds the worker
   environment (and uses the provider key) that the in-process dispatch of the
   same create request gives. *)
C37_DispatchModesEquivalent ==
    disp.pc = "built" =>
        disp.env = WorkerEnv(WorkflowInputs(InProcessArgs(disp.req), disp.cached),
                             disp.settings)

(* ------------------------------- C38 ----------------------------------- *)
(* C38: a request answered 429 leaves no timestamp of its own in the bucket of
   its user_hash nor in the bucket of its client IP: each of the two buckets is
   what it was, or what it was with the expired entries pruned. *)
C38_RejectedConsumesNoQuota ==
    [][\A user \in RateUsers, ip \in ClientIps :
          (RateRequest(user, ip) /\ rate'.last.code = 429) =>
              \A s \in {user, ip} :
                  rate'.bucket[s] \in {rate.bucket[s], Pruned(rate.bucket[s], rate.now)}]_vars

(* ------------------------------- C39 ----------------------------------- *)
(* ids of the entries of a sequence of log entries *)
EntryIds(entries) == {entries[i].id : i \in DOMAIN entries}

(* C39: the subscriber of the log stream gets every entry exactly once: no
   entry is emitted twice, and after a poll every entry still in the ring has
   been emitted, also an entry stamped with the time of the last one emitted. *)
C39_EachEntryOnce ==
    /\ \A i, j \in DOMAIN logsse.emitted :
           logsse.emitted[i].id = logsse.emitted[j].id => i = j
    /\ logsse.polled => EntryIds(logsse.buf) \subseteq EntryIds(logsse.emitted)

(* ------------------------------- C40 ----------------------------------- *)
(* C40: the ready callback answers webhook_delivered = true only when a POST
   to the user webhook of the deployment was answered 2xx. *)
C40_DeliveredMeansDelivered ==
    \A d \in Ids :
        (calls[d]["worker"].pc = "done" /\ calls[d]["worker"].result) => delivered[d] > 0
====
